---- MODULE Spec2Model ----
(***************************************************************************)
(* Model of reliability_model3_draft_18Mar2020.py: the fragility-curve     *)
(* batch script.  The script reads a table of structures (df0), runs one   *)
(* pass per Pronto theme over all structures to compute design life        *)
(* adjustment, adjusted design life, cov, strength ratio and design ratio, *)
(* derives a (mean, stddev) pair per component, and sweeps the wind speed  *)
(* from 0 to 120 mph to fill one probability-of-failure column per speed.  *)
(* It then stamps the table with the run time and writes it to a CSV file  *)
(* and / or a database table, as its two flags say.                        *)
(*                                                                         *)
(* Numbers.  Python floats are modelled in fixed point: a quantity x is    *)
(* held as the integer x * Scale, probabilities and standard normal        *)
(* arguments as x * PScale.  Divisions round towards minus infinity.  The  *)
(* non-finite floats numpy produces (inf, -inf, nan) are kept as tagged    *)
(* values, see Num/Inf/NInf/NaN.                                           *)
(***************************************************************************)
EXTENDS Integers, Sequences, FiniteSets, TLC

VARIABLES
    pc,       \* position of the script: "read", "calc", "mean",
              \* "sweep", "swept", "csv", "db", "done", "failed"
    df0,      \* the input columns of df0: a sequence of structure records
    entry_i,  \* index in steel_pronto_themes of the running Pronto theme pass
    p,        \* number of structures already processed in the running pass
    lists,    \* the five running lists of the pass (the *_values lists)
    cols,     \* the per-theme columns appended to df0 (entry + '_cov', ...)
    dist,     \* the mean_* / stddev_* columns of df0
    wspeed,   \* next wind speed of the sweep
    pf,       \* the "_<v>_mph" columns of df0, indexed by v + 1
    factors,  \* the reduction factors held by the loop's local variables
    writeCSV, \* the flag of line 236
    writeDB,  \* the flag of line 237
    drop_list,\* the name drop_list: "unbound" until line 801 binds it ("bound")
    DATETIME, \* the DATETIME column of df0: "unset" until line 795 ("now")
    csv_file, \* df0_calculations.csv: Unwritten, or the table written to it
    db_table, \* the table test_Reliability: Unwritten, or the table written to it
    printed   \* the messages of the output section printed so far

\* the variables of the output section (lines 795-1010)
outputs == <<writeCSV, writeDB, drop_list, DATETIME, csv_file, db_table, printed>>

vars == <<pc, df0, entry_i, p, lists, cols, dist, wspeed, pf, factors, outputs>>

(***************************************************************************)
(* Fixed point and float values                                            *)
(***************************************************************************)
Scale == 10 * 10          \* 0.01 resolution for factors, ratios, years, mph
PScale == 100 * 100       \* 0.0001 resolution for probabilities and z values

Min(a, b) == IF a <= b THEN a ELSE b
Max(a, b) == IF a >= b THEN a ELSE b

Num(v) == [t |-> "num", v |-> v]
Inf == [t |-> "inf", v |-> 0]
NInf == [t |-> "ninf", v |-> 0]
NaN == [t |-> "nan", v |-> 0]

IsNum(x) == x.t = "num"
Sign(x) == IF x.t = "inf" THEN 1
           ELSE IF x.t = "ninf" THEN -1
           ELSE IF x.v > 0 THEN 1 ELSE IF x.v < 0 THEN -1 ELSE 0

\* IEEE product of two floats; the finite product is rescaled by k
FMul(x, y, k) ==
    IF x.t = "nan" \/ y.t = "nan" THEN NaN
    ELSE IF IsNum(x) /\ IsNum(y) THEN Num((x.v * y.v) \div k)
    ELSE IF Sign(x) * Sign(y) = 0 THEN NaN
    ELSE IF Sign(x) * Sign(y) > 0 THEN Inf ELSE NInf

\* IEEE sum of two floats
FAdd(x, y) ==
    IF x.t = "nan" \/ y.t = "nan" THEN NaN
    ELSE IF IsNum(x) /\ IsNum(y) THEN Num(x.v + y.v)
    ELSE IF IsNum(x) THEN y
    ELSE IF IsNum(y) THEN x
    ELSE IF x.t = y.t THEN x ELSE NaN

\* IEEE quotient a / b of two finite numbers, result scaled by k
FDiv(a, b, k) ==
    IF b = 0 THEN (IF a = 0 THEN NaN ELSE IF a > 0 THEN Inf ELSE NInf)
    ELSE Num((a * k) \div b)

RECURSIVE IsqrtIter(_, _, _)
IsqrtIter(n, lo, hi) ==
    IF lo >= hi THEN lo
    ELSE LET mid == (lo + hi + 1) \div 2
         IN IF mid * mid <= n THEN IsqrtIter(n, mid, hi)
                              ELSE IsqrtIter(n, lo, mid - 1)

\* math.sqrt on a sum of squares of Scale-d numbers: the Scale-d root
Sqrt(n) == IsqrtIter(n, 0, Min(n, 46340))

(***************************************************************************)
(* parameters.py (hard-coded values, not part of the listed source): the   *)
(* theme list, the reduction ceilings, the nominal strengths and the       *)
(* per-theme constants [cov at age 0, cov at design life, design life].    *)
(***************************************************************************)
steel_pronto_themes ==
    <<"ANCHOR_CD", "GUY_CD", "FOUNDATION_CD", "STUB_SPLICE_CD",
      "STRUCT_ATTACH_CD", "CONDUCTOR_CD", "OGW_CD", "HARDWARE_INSUL_CD">>

r_spl == 20        \* 0.20
r_cor == 40        \* 0.40
mu_steel == 100    \* mph
mu_wood == 80      \* mph

\* lines 355-366: one column per Pronto code label, rows 0, 1, 2
df_reliability_calcs_constants ==
    [ANCHOR_CD         |-> <<10, 30, 50>>,
     GUY_CD            |-> <<10, 35, 40>>,
     FOUNDATION_CD     |-> <<10, 25, 80>>,
     STUB_SPLICE_CD    |-> <<10, 30, 60>>,
     FRAME_ATTACH_CD   |-> <<15, 40, 45>>,
     STRUCT_ATTACH_CD  |-> <<10, 35, 55>>,
     CONDUCTOR_CD      |-> <<10, 30, 70>>,
     OGW_CD            |-> <<10, 32, 65>>,
     HARDWARE_INSUL_CD |-> <<10, 36, 35>>,
     STRUCTURE_CD      |-> <<20, 50, 40>>,
     CROSSARMS_CD      |-> <<18, 45, 30>>]

\* df_reliability_calcs_constants.loc[row, col]
ConstLoc(row, col) == df_reliability_calcs_constants[col][row + 1]

(***************************************************************************)
(* df_MCE_corrosion_scores (lines 270-344): the three columns the script   *)
(* reads.  ERROR_MCE_NA stands for the string 'ERROR_MCE_N/A'.             *)
(***************************************************************************)
ERROR_MCE_NA == -1

ROW_LABELS ==
    {"heavy", "intermediate", "light", "Estuarine and Marine Deepwater",
     "Estuarine and Marine Wetland", "Freshwater Emergent Wetland",
     "Freshwater Forested/Shrub Wetland", "Freshwater Pond", "Lake", "Riverine",
     "other", "Blank", "None", "Farmland of Local Importance",
     "Farmland of Statewide Importance", "Grazing Land",
     "Irrigated Farmland (interim)", "Local Potential",
     "Nonagricultural and Natural Vegetation", "Not Mapped", "Other Land",
     "Prime Farmland", "Rural Residential and Rural Commercial",
     "Unique Farmland", "Urban and Built-up Land", "Water",
     "Confined Animal Agriculture", "moderate", "severe",
     "Lower 1/3 of PG&E wind speed", "Middle 1/3 of PG&E wind speed",
     "Top 1/3 of PG&E wind speed", "High", "Med", "Low",
     "Vacant or Disturbed Land", "Rural Residential Land",
     "Farmland of Local Potential",
     "Semi-agricultural and Rural Commercial Land", "Water Area"}

MCE_WETLAND_TYPE ==
    [l \in ROW_LABELS |->
        IF l \in {"Estuarine and Marine Deepwater", "Estuarine and Marine Wetland"} THEN 2
        ELSE IF l \in {"Freshwater Emergent Wetland", "Freshwater Forested/Shrub Wetland",
                       "Freshwater Pond", "Lake", "Riverine", "other"} THEN 1
        ELSE IF l \in {"Blank", "None"} THEN 0
        ELSE ERROR_MCE_NA]

MCE_AGRICULTURE ==
    [l \in ROW_LABELS |->
        IF l \in {"Farmland of Local Importance", "Farmland of Statewide Importance",
                  "Irrigated Farmland (interim)", "Prime Farmland",
                  "Rural Residential and Rural Commercial", "Water",
                  "Confined Animal Agriculture"} THEN 2
        ELSE IF l \in {"Grazing Land", "Local Potential",
                       "Nonagricultural and Natural Vegetation", "Not Mapped",
                       "Other Land", "Unique Farmland"} THEN 1
        ELSE IF l \in {"Urban and Built-up Land", "Vacant or Disturbed Land",
                       "Rural Residential Land", "Farmland of Local Potential",
                       "Semi-agricultural and Rural Commercial Land", "Water Area"} THEN 0
        ELSE ERROR_MCE_NA]

MCE_ATMOSPHERIC_CORROSION ==
    [l \in ROW_LABELS |->
        IF l = "severe" THEN 2
        ELSE IF l = "moderate" THEN 1
        ELSE IF l = "None" THEN 0
        ELSE ERROR_MCE_NA]

(***************************************************************************)
(* The design life functions (lines 84-229).  Each returns the triple      *)
(* design_life_adjustment, design_life_adjusted, cov.                      *)
(***************************************************************************)
\* a cov that grows with the ratio of age to adjusted life, not with its square
CovOf_Linear(entry, AGE_YEARS, design_life_adjusted) ==
    LET c0 == ConstLoc(0, entry)
        c1 == ConstLoc(1, entry)
        ratio == FDiv(AGE_YEARS * Scale * Scale, design_life_adjusted, Scale)
    IN FAdd(Num(c0), FMul(Num(c1 - c0), ratio, Scale))

\* cov = c0 + (c1 - c0) * (AGE_YEARS**2 / design_life_adjusted**2), in numpy
\* floats: a zero divisor gives inf (nan when AGE_YEARS is 0 too), no exception
CovOf(entry, AGE_YEARS, design_life_adjusted) ==
    LET c0 == ConstLoc(0, entry)
        c1 == ConstLoc(1, entry)
        ratio == FDiv(AGE_YEARS * AGE_YEARS * Scale * Scale,
                      design_life_adjusted * design_life_adjusted, Scale)
    IN FAdd(Num(c0), FMul(Num(c1 - c0), ratio, Scale))

DLifeResult(entry, AGE_YEARS, design_life_adjustment) ==
    LET design_life_adjusted == ConstLoc(2, entry) * design_life_adjustment
    IN [design_life_adjustment |-> design_life_adjustment,
        design_life_adjusted |-> design_life_adjusted,
        cov |-> CovOf(entry, AGE_YEARS, design_life_adjusted)]

\* line 93
Conductor_Negative(outage, wear, splice, atm) ==
    ((Scale - Sqrt(wear * wear + splice * splice + atm * atm)) * (Scale - outage)) \div Scale

\* line 95
Conductor_RootSumSquare(outage, wear, splice, atm) ==
    Scale - Sqrt(wear * wear + splice * splice + atm * atm + outage * outage)

DLife_WoodSteel_Conductor(AGE_YEARS, pronto, outage, wear, splice, atm) ==
    DLifeResult(pronto, AGE_YEARS,
        IF outage < 0
        THEN Conductor_Negative(outage, wear, splice, atm)
        ELSE Conductor_RootSumSquare(outage, wear, splice, atm))

\* the product (1 - soil) * (1 - outage) with the second factor replaced by
\* the outage factor itself
Anchor_Negative_TimesOutage(outage, soil) == ((Scale - soil) * (0 - outage)) \div Scale

\* line 114
Anchor_Negative(outage, soil) == ((Scale - soil) * (Scale - outage)) \div Scale

\* line 116
Anchor_RootSumSquare(outage, soil) == Scale - Sqrt(soil * soil + outage * outage)

DLife_WoodSteel_Anchor(AGE_YEARS, entry, outage, soil) ==
    DLifeResult(entry, AGE_YEARS,
        IF outage < 0
        THEN Anchor_Negative(outage, soil)
        ELSE Anchor_RootSumSquare(outage, soil))

\* line 134
Guy_Negative(outage, atm) == ((Scale - atm) * (Scale - outage)) \div Scale

\* line 136
Guy_RootSumSquare(outage, atm) == Scale - Sqrt(atm * atm + outage * outage)

DLife_WoodSteel_Guy(AGE_YEARS, entry, outage, atm) ==
    DLifeResult(entry, AGE_YEARS,
        IF outage < 0
        THEN Guy_Negative(outage, atm)
        ELSE Guy_RootSumSquare(outage, atm))

\* line 155: the product binds tighter than the subtraction
OGW_Negative(outage, atm, soil) ==
    Scale - (Sqrt(soil * soil + atm * atm) * (Scale - outage)) \div Scale

\* line 157
OGW_RootSumSquare(outage, atm, soil) ==
    Scale - Sqrt(soil * soil + atm * atm + outage * outage)

DLife_WoodSteel_OGW(AGE_YEARS, entry, outage, atm, soil) ==
    DLifeResult(entry, AGE_YEARS,
        IF outage < 0
        THEN OGW_Negative(outage, atm, soil)
        ELSE OGW_RootSumSquare(outage, atm, soil))

\* line 176: the product binds tighter than the subtraction
HI_Negative(outage, atm, soil) ==
    Scale - (Sqrt(soil * soil + atm * atm) * (Scale - outage)) \div Scale

\* line 178
HI_RootSumSquare(outage, atm, soil) ==
    Scale - Sqrt(soil * soil + atm * atm + outage * outage)

DLife_WoodSteel_HI(AGE_YEARS, entry, outage, atm, soil) ==
    DLifeResult(entry, AGE_YEARS,
        IF outage < 0
        THEN HI_Negative(outage, atm, soil)
        ELSE HI_RootSumSquare(outage, atm, soil))

\* line 197
StructureFoundation_Negative(outage, atm, wear, soil) ==
    ((Scale - Sqrt(wear * wear + soil * soil + atm * atm)) * (Scale - outage)) \div Scale

\* line 199
StructureFoundation_RootSumSquare(outage, atm, wear, soil) ==
    Scale - Sqrt(wear * wear + soil * soil + atm * atm + outage * outage)

DLife_WoodSteel_StructureFoundation(AGE_YEARS, entry, outage, atm, wear, soil) ==
    DLifeResult(entry, AGE_YEARS,
        IF outage < 0
        THEN StructureFoundation_Negative(outage, atm, wear, soil)
        ELSE StructureFoundation_RootSumSquare(outage, atm, wear, soil))

\* line 218
AllOthers_Negative(outage, atm, wear) ==
    ((Scale - Sqrt(wear * wear + atm * atm)) * (Scale - outage)) \div Scale

\* line 220
AllOthers_RootSumSquare(outage, atm, wear) ==
    Scale - Sqrt(wear * wear + atm * atm + outage * outage)

DLife_WoodSteel_AllOthers(AGE_YEARS, entry, outage, atm, wear) ==
    DLifeResult(entry, AGE_YEARS,
        IF outage < 0
        THEN AllOthers_Negative(outage, atm, wear)
        ELSE AllOthers_RootSumSquare(outage, atm, wear))

(***************************************************************************)
(* Structure-dependent calculations (lines 409-437)                        *)
(***************************************************************************)
NowYear == 2020    \* now.year

\* the modifier taken with its own sign
outage_density_red_factor_Unnegated(row) == row.OUTAGE_DESIGNLIFE_MOD

outage_density_red_factor(row) == 0 - row.OUTAGE_DESIGNLIFE_MOD

\* the linear rise without the ceiling
splice_density_red_factor_Uncapped(row) ==
    (((row.SPLICES * Scale) \div 5) * r_spl) \div Scale

splice_density_red_factor(row) ==
    Min((((row.SPLICES * Scale) \div 5) * r_spl) \div Scale, r_spl)

wear_fatigue_red_factor(row) == row.WEAR_FATIGUE_RED_FAC

\* df_MCE_corrosion_scores_indexed.loc[label, column]; the label must be a row
score_agriculture(row) == MCE_AGRICULTURE[row.AGRICULTURE]
score_wetland(row) == MCE_WETLAND_TYPE[row.WETLAND_TYPE]
score_corrosion_atmospheric(row) == MCE_ATMOSPHERIC_CORROSION[row.CORROSION_ZONE]

\* The statements of lines 419-435 that raise: .loc on a label that is no row
\* (KeyError); max() of a number and the string 'ERROR_MCE_N/A' (TypeError);
\* float() of that string when both scores are the string (ValueError).
ScoresRaise(row) ==
    IF {row.AGRICULTURE, row.WETLAND_TYPE, row.CORROSION_ZONE} \subseteq ROW_LABELS
    THEN ERROR_MCE_NA \in {score_agriculture(row), score_wetland(row),
                           score_corrosion_atmospheric(row)}
    ELSE TRUE

\* the two scores added instead of the larger one taken
soil_corrosivity_red_factor_Sum(row) ==
    ((((score_agriculture(row) + score_wetland(row)) * Scale) \div 2) * r_cor) \div Scale

soil_corrosivity_red_factor(row) ==
    (((Max(score_agriculture(row), score_wetland(row)) * Scale) \div 2) * r_cor) \div Scale

atmospheric_corrosivity_red_factor(row) ==
    (((Max(score_wetland(row), score_corrosion_atmospheric(row)) * Scale) \div 2) * r_cor) \div Scale

AGE_YEARS(row) == NowYear - row.INSTALLED_YEAR

(***************************************************************************)
(* Material-dependent calculations (lines 471-739)                         *)
(***************************************************************************)
NaNCode == -1      \* a missing Pronto code (math.isnan is True)

\* lines 473-534
SteelDLife(entry, row) ==
    IF entry = "CONDUCTOR_CD" THEN
        DLife_WoodSteel_Conductor(AGE_YEARS(row), entry, outage_density_red_factor(row),
            wear_fatigue_red_factor(row), splice_density_red_factor(row),
            atmospheric_corrosivity_red_factor(row))
    ELSE IF entry = "ANCHOR_CD" THEN
        DLife_WoodSteel_Anchor(AGE_YEARS(row), entry, outage_density_red_factor(row),
            soil_corrosivity_red_factor(row))
    ELSE IF entry = "GUY_CD" THEN
        DLife_WoodSteel_Guy(AGE_YEARS(row), entry, outage_density_red_factor(row),
            atmospheric_corrosivity_red_factor(row))
    ELSE IF entry = "OGW_CD" THEN
        DLife_WoodSteel_OGW(AGE_YEARS(row), entry, outage_density_red_factor(row),
            atmospheric_corrosivity_red_factor(row), soil_corrosivity_red_factor(row))
    ELSE IF entry = "HARDWARE_INSUL_CD" THEN
        DLife_WoodSteel_HI(AGE_YEARS(row), entry, outage_density_red_factor(row),
            atmospheric_corrosivity_red_factor(row), soil_corrosivity_red_factor(row))
    ELSE IF entry = "FOUNDATION_CD" THEN
        DLife_WoodSteel_StructureFoundation(AGE_YEARS(row), entry, outage_density_red_factor(row),
            atmospheric_corrosivity_red_factor(row), wear_fatigue_red_factor(row),
            soil_corrosivity_red_factor(row))
    ELSE
        DLife_WoodSteel_AllOthers(AGE_YEARS(row), entry, outage_density_red_factor(row),
            atmospheric_corrosivity_red_factor(row), wear_fatigue_red_factor(row))

\* lines 539-544
StrengthRatioSteel(entry, row) ==
    IF row[entry] = 0 \/ row[entry] = NaNCode THEN Scale
    ELSE IF row[entry] = 2 THEN 92
    ELSE Scale - ((row[entry] - 1) * Scale) \div 6

\* lines 471-549
SteelBranch(entry, row) ==
    LET d == SteelDLife(entry, row)
    IN [design_life_adjustment |-> d.design_life_adjustment,
        design_life_adjusted |-> d.design_life_adjusted,
        cov |-> d.cov,
        strength_ratio |-> StrengthRatioSteel(entry, row),
        design_ratio |-> 1 * Scale]

\* the theme's own name kept for a WOOD structure
EntryWood_Unaliased(entry) == entry

\* lines 563-570
EntryWood(entry) ==
    IF entry = "FOUNDATION_CD" THEN "STRUCTURE_CD"
    ELSE IF entry = "STRUCT_ATTACH_CD" THEN "FRAME_ATTACH_CD"
    ELSE IF entry = "STUB_SPLICE_CD" THEN "CROSSARMS_CD"
    ELSE entry

\* the constants read under the steel name while the code is read under the
\* wood name
WoodDLife_SteelColumns(entry_wood, row) ==
    SteelDLife(IF entry_wood = "STRUCTURE_CD" THEN "FOUNDATION_CD"
               ELSE IF entry_wood = "FRAME_ATTACH_CD" THEN "STRUCT_ATTACH_CD"
               ELSE IF entry_wood = "CROSSARMS_CD" THEN "STUB_SPLICE_CD"
               ELSE entry_wood, row)

\* lines 573-634
WoodDLife(entry_wood, row) ==
    IF entry_wood = "CONDUCTOR_CD" THEN
        DLife_WoodSteel_Conductor(AGE_YEARS(row), entry_wood, outage_density_red_factor(row),
            wear_fatigue_red_factor(row), splice_density_red_factor(row),
            atmospheric_corrosivity_red_factor(row))
    ELSE IF entry_wood = "ANCHOR_CD" THEN
        DLife_WoodSteel_Anchor(AGE_YEARS(row), entry_wood, outage_density_red_factor(row),
            soil_corrosivity_red_factor(row))
    ELSE IF entry_wood = "GUY_CD" THEN
        DLife_WoodSteel_Guy(AGE_YEARS(row), entry_wood, outage_density_red_factor(row),
            atmospheric_corrosivity_red_factor(row))
    ELSE IF entry_wood = "OGW_CD" THEN
        DLife_WoodSteel_OGW(AGE_YEARS(row), entry_wood, outage_density_red_factor(row),
            atmospheric_corrosivity_red_factor(row), soil_corrosivity_red_factor(row))
    ELSE IF entry_wood = "HARDWARE_INSUL_CD" THEN
        DLife_WoodSteel_HI(AGE_YEARS(row), entry_wood, outage_density_red_factor(row),
            atmospheric_corrosivity_red_factor(row), soil_corrosivity_red_factor(row))
    ELSE IF entry_wood = "STRUCTURE_CD" THEN
        DLife_WoodSteel_StructureFoundation(AGE_YEARS(row), entry_wood, outage_density_red_factor(row),
            atmospheric_corrosivity_red_factor(row), wear_fatigue_red_factor(row),
            soil_corrosivity_red_factor(row))
    ELSE
        DLife_WoodSteel_AllOthers(AGE_YEARS(row), entry_wood, outage_density_red_factor(row),
            atmospheric_corrosivity_red_factor(row), wear_fatigue_red_factor(row))

\* the linear derating applied to code 2 as to the other codes
StrengthRatioWood_Linear(entry_wood, row) ==
    IF row[entry_wood] = 0 \/ row[entry_wood] = NaNCode THEN Scale
    ELSE Scale - ((row[entry_wood] - 1) * Scale) \div 6

\* lines 639-644
StrengthRatioWood(entry_wood, row) ==
    IF row[entry_wood] = 0 \/ row[entry_wood] = NaNCode THEN Scale
    ELSE IF row[entry_wood] = 2 THEN 92
    ELSE Scale - ((row[entry_wood] - 1) * Scale) \div 6

\* lines 553-649
WoodBranch(entry, row) ==
    LET entry_wood == EntryWood(entry)
        d == WoodDLife(entry_wood, row)
    IN [design_life_adjustment |-> d.design_life_adjustment,
        design_life_adjusted |-> d.design_life_adjusted,
        cov |-> d.cov,
        strength_ratio |-> StrengthRatioWood(entry_wood, row),
        design_ratio |-> 1 * Scale]

\* lines 658-723; line 677 compares entry with 'GUY', which is no theme name
OtherDLife(entry, row) ==
    IF entry = "CONDUCTOR_CD" THEN
        DLife_WoodSteel_Conductor(AGE_YEARS(row), entry, outage_density_red_factor(row),
            wear_fatigue_red_factor(row), splice_density_red_factor(row),
            atmospheric_corrosivity_red_factor(row))
    ELSE IF entry = "ANCHOR_CD" THEN
        DLife_WoodSteel_Anchor(AGE_YEARS(row), entry, outage_density_red_factor(row),
            soil_corrosivity_red_factor(row))
    ELSE IF entry = "GUY" THEN
        DLife_WoodSteel_Guy(AGE_YEARS(row), entry, outage_density_red_factor(row),
            atmospheric_corrosivity_red_factor(row))
    ELSE IF entry = "OGW_CD" THEN
        DLife_WoodSteel_OGW(AGE_YEARS(row), entry, outage_density_red_factor(row),
            atmospheric_corrosivity_red_factor(row), soil_corrosivity_red_factor(row))
    ELSE IF entry = "FOUNDATION_CD" THEN
        DLife_WoodSteel_StructureFoundation(AGE_YEARS(row), entry, outage_density_red_factor(row),
            atmospheric_corrosivity_red_factor(row), wear_fatigue_red_factor(row),
            soil_corrosivity_red_factor(row))
    ELSE IF entry = "HARDWARE_INSUL_CD" THEN
        DLife_WoodSteel_HI(AGE_YEARS(row), entry, outage_density_red_factor(row),
            atmospheric_corrosivity_red_factor(row), soil_corrosivity_red_factor(row))
    ELSE
        DLife_WoodSteel_AllOthers(AGE_YEARS(row), entry, outage_density_red_factor(row),
            atmospheric_corrosivity_red_factor(row), wear_fatigue_red_factor(row))

\* lines 729-734
StrengthRatioOther(entry, row) ==
    IF row[entry] = 0 \/ row[entry] = NaNCode THEN Scale
    ELSE IF row[entry] = 2 THEN 92
    ELSE Scale - ((row[entry] - 1) * Scale) \div 6

\* lines 652-739
OtherBranch(entry, row) ==
    LET d == OtherDLife(entry, row)
    IN [design_life_adjustment |-> d.design_life_adjustment,
        design_life_adjusted |-> d.design_life_adjusted,
        cov |-> d.cov,
        strength_ratio |-> StrengthRatioOther(entry, row),
        design_ratio |-> 1 * Scale]

\* lines 471, 553, 652: the branch the material flag selects
MaterialBranch(entry, row) ==
    IF row.MATERIAL_FLAG = "STEEL" THEN SteelBranch(entry, row)
    ELSE IF row.MATERIAL_FLAG = "WOOD" THEN WoodBranch(entry, row)
    ELSE OtherBranch(entry, row)

(***************************************************************************)
(* scipy.stats.lognorm.cdf(x, s, loc) with the default scale 1, as called  *)
(* on lines 64-79: the first argument after x is the shape s, the second   *)
(* the location loc.  cdf = Phi(ln(x - loc) / s) for x > loc, 0 for        *)
(* x <= loc, and nan when s <= 0 or an argument is nan.                    *)
(***************************************************************************)
RECURSIVE Pow2(_)
Pow2(j) == IF j = 0 THEN 1 ELSE 2 * Pow2(j - 1)

RECURSIVE Log2Floor(_)
Log2Floor(y) == IF y < 2 THEN 0 ELSE 1 + Log2Floor(y \div 2)

\* Scale * ln(2^j / Scale)
LnNode(j) == (693147 * j - 4605170) \div 10000

\* Scale * ln(y / Scale) for y > 0: exact at the powers of two up to rounding,
\* linear in between, nondecreasing in y
Ln(y) ==
    LET j == Log2Floor(y)
        frac == IF j >= 7 THEN (y - Pow2(j)) \div Pow2(j - 7)
                ELSE (y - Pow2(j)) * Pow2(7 - j)
    IN LnNode(j) + ((LnNode(j + 1) - LnNode(j)) * frac) \div 128

\* PScale * Phi(k / 2) for k = 0 .. 8
PhiNodes == <<5000, 6915, 8413, 9332, 9772, 9938, 9987, 9998, 10000>>

\* PScale * Phi(z / PScale) for z >= 0
PhiPos(z) ==
    LET k == z \div (PScale \div 2)
    IN IF k >= 8 THEN PScale
       ELSE PhiNodes[k + 1]
            + ((PhiNodes[k + 2] - PhiNodes[k + 1]) * (z - k * (PScale \div 2))) \div (PScale \div 2)

\* the standard normal cdf, nondecreasing in z
Phi(z) == IF z >= 0 THEN PhiPos(z) ELSE PScale - PhiPos(0 - z)

\* x an integer wind speed, s a Scale-d number, loc a float; a PScale-d float
LognormCdf(x, s, loc) ==
    IF s <= 0 \/ loc.t = "nan" THEN NaN
    ELSE IF loc.t = "inf" THEN Num(0)
    ELSE IF loc.t = "ninf" THEN Num(PScale)
    ELSE IF x * Scale - loc.v <= 0 THEN Num(0)
    ELSE Num(Phi((Ln(x * Scale - loc.v) * PScale) \div s))

\* 1 - F
Compl(F) == IF IsNum(F) THEN Num(PScale - F.v) ELSE NaN

\* np.maximum of two values: nan propagates
FMax(x, y) == IF x.t = "nan" \/ y.t = "nan" THEN NaN ELSE Num(Max(x.v, y.v))

\* (a + b) / 2
HalfSum(a, b) == IF IsNum(a) /\ IsNum(b) THEN Num((a.v + b.v) \div 2) ELSE NaN

\* the FOUNDATION factor of the product replaced by a second GUY factor
ComputeProbabilityFailure_GuyTwice(ws, mean_ANCHOR, stddev_ANCHOR, mean_GUY, stddev_GUY, mean_FOUNDATION, stddev_FOUNDATION, mean_STUB_SPLICE, stddev_STUB_SPLICE, mean_STRUCT_ATTACH, stddev_STRUCT_ATTACH, mean_CONDUCTOR, stddev_CONDUCTOR, mean_OGW, stddev_OGW, mean_HI, stddev_HI) ==
    HalfSum(
        Compl(FMul(FMul(FMul(FMul(FMul(FMul(FMul(
            Compl(LognormCdf(ws, mean_ANCHOR, stddev_ANCHOR)),
            Compl(LognormCdf(ws, mean_GUY, stddev_GUY)), PScale),
            Compl(LognormCdf(ws, mean_GUY, stddev_GUY)), PScale),
            Compl(LognormCdf(ws, mean_STUB_SPLICE, stddev_STUB_SPLICE)), PScale),
            Compl(LognormCdf(ws, mean_STRUCT_ATTACH, stddev_STRUCT_ATTACH)), PScale),
            Compl(LognormCdf(ws, mean_CONDUCTOR, stddev_CONDUCTOR)), PScale),
            Compl(LognormCdf(ws, mean_OGW, stddev_OGW)), PScale),
            Compl(LognormCdf(ws, mean_HI, stddev_HI)), PScale)),
        FMax(FMax(FMax(FMax(FMax(FMax(FMax(
            LognormCdf(ws, mean_ANCHOR, stddev_ANCHOR),
            LognormCdf(ws, mean_GUY, stddev_GUY)),
            LognormCdf(ws, mean_FOUNDATION, stddev_FOUNDATION)),
            LognormCdf(ws, mean_STUB_SPLICE, stddev_STUB_SPLICE)),
            LognormCdf(ws, mean_STRUCT_ATTACH, stddev_STRUCT_ATTACH)),
            LognormCdf(ws, mean_CONDUCTOR, stddev_CONDUCTOR)),
            LognormCdf(ws, mean_OGW, stddev_OGW)),
            LognormCdf(ws, mean_HI, stddev_HI)))

\* lines 54-81
ComputeProbabilityFailureLogNorm(ws, mean_ANCHOR, stddev_ANCHOR, mean_GUY, stddev_GUY, mean_FOUNDATION, stddev_FOUNDATION, mean_STUB_SPLICE, stddev_STUB_SPLICE, mean_STRUCT_ATTACH, stddev_STRUCT_ATTACH, mean_CONDUCTOR, stddev_CONDUCTOR, mean_OGW, stddev_OGW, mean_HI, stddev_HI) ==
    HalfSum(
        Compl(FMul(FMul(FMul(FMul(FMul(FMul(FMul(
            Compl(LognormCdf(ws, mean_ANCHOR, stddev_ANCHOR)),
            Compl(LognormCdf(ws, mean_GUY, stddev_GUY)), PScale),
            Compl(LognormCdf(ws, mean_FOUNDATION, stddev_FOUNDATION)), PScale),
            Compl(LognormCdf(ws, mean_STUB_SPLICE, stddev_STUB_SPLICE)), PScale),
            Compl(LognormCdf(ws, mean_STRUCT_ATTACH, stddev_STRUCT_ATTACH)), PScale),
            Compl(LognormCdf(ws, mean_CONDUCTOR, stddev_CONDUCTOR)), PScale),
            Compl(LognormCdf(ws, mean_OGW, stddev_OGW)), PScale),
            Compl(LognormCdf(ws, mean_HI, stddev_HI)), PScale)),
        FMax(FMax(FMax(FMax(FMax(FMax(FMax(
            LognormCdf(ws, mean_ANCHOR, stddev_ANCHOR),
            LognormCdf(ws, mean_GUY, stddev_GUY)),
            LognormCdf(ws, mean_FOUNDATION, stddev_FOUNDATION)),
            LognormCdf(ws, mean_STUB_SPLICE, stddev_STUB_SPLICE)),
            LognormCdf(ws, mean_STRUCT_ATTACH, stddev_STRUCT_ATTACH)),
            LognormCdf(ws, mean_CONDUCTOR, stddev_CONDUCTOR)),
            LognormCdf(ws, mean_OGW, stddev_OGW)),
            LognormCdf(ws, mean_HI, stddev_HI)))

(***************************************************************************)
(* mean_* and stddev_* columns (lines 759-781)                             *)
(***************************************************************************)
\* strength_ratio * design_ratio * mu
MeanOf(c, i, mu) ==
    ((c.strength_ratio[i] * c.design_ratio[i]) \div Scale) * mu

\* strength_ratio * design_ratio * cov * mu
StddevOf(c, i, mu) ==
    FMul(FMul(Num((c.strength_ratio[i] * c.design_ratio[i]) \div Scale), c.cov[i], Scale),
         Num(mu), 1)

\* the wood constant for WOOD alone
MuOf_WoodAlone(row) == IF row.MATERIAL_FLAG = "WOOD" THEN mu_wood ELSE mu_steel

\* line 772
MuOf(row) == IF row.MATERIAL_FLAG = "STEEL" THEN mu_steel ELSE mu_wood

\* the GUY stddev built from the ANCHOR columns
MeanStddevColumns_GuyFromAnchor(d, c) ==
    [mean_ANCHOR |-> [i \in 1..Len(d) |-> MeanOf(c["ANCHOR_CD"], i, mu_steel)],
     stddev_ANCHOR |-> [i \in 1..Len(d) |-> StddevOf(c["ANCHOR_CD"], i, mu_steel)],
     mean_GUY |-> [i \in 1..Len(d) |-> MeanOf(c["GUY_CD"], i, mu_steel)],
     stddev_GUY |-> [i \in 1..Len(d) |-> StddevOf(c["ANCHOR_CD"], i, mu_steel)],
     mean_CONDUCTOR |-> [i \in 1..Len(d) |-> MeanOf(c["CONDUCTOR_CD"], i, mu_steel)],
     stddev_CONDUCTOR |-> [i \in 1..Len(d) |-> StddevOf(c["CONDUCTOR_CD"], i, mu_steel)],
     mean_OGW |-> [i \in 1..Len(d) |-> MeanOf(c["OGW_CD"], i, mu_steel)],
     stddev_OGW |-> [i \in 1..Len(d) |-> StddevOf(c["OGW_CD"], i, mu_steel)],
     mean_HI |-> [i \in 1..Len(d) |-> MeanOf(c["HARDWARE_INSUL_CD"], i, mu_steel)],
     stddev_HI |-> [i \in 1..Len(d) |-> StddevOf(c["HARDWARE_INSUL_CD"], i, mu_steel)],
     mean_FOUNDATION |-> [i \in 1..Len(d) |-> MeanOf(c["FOUNDATION_CD"], i, MuOf(d[i]))],
     stddev_FOUNDATION |-> [i \in 1..Len(d) |-> StddevOf(c["FOUNDATION_CD"], i, MuOf(d[i]))],
     mean_STUB_SPLICE |-> [i \in 1..Len(d) |-> MeanOf(c["STUB_SPLICE_CD"], i, MuOf(d[i]))],
     stddev_STUB_SPLICE |-> [i \in 1..Len(d) |-> StddevOf(c["STUB_SPLICE_CD"], i, MuOf(d[i]))],
     mean_STRUCT_ATTACH |-> [i \in 1..Len(d) |-> MeanOf(c["STRUCT_ATTACH_CD"], i, MuOf(d[i]))],
     stddev_STRUCT_ATTACH |-> [i \in 1..Len(d) |-> StddevOf(c["STRUCT_ATTACH_CD"], i, MuOf(d[i]))]]

MeanStddevColumns(d, c) ==
    [mean_ANCHOR |-> [i \in 1..Len(d) |-> MeanOf(c["ANCHOR_CD"], i, mu_steel)],
     stddev_ANCHOR |-> [i \in 1..Len(d) |-> StddevOf(c["ANCHOR_CD"], i, mu_steel)],
     mean_GUY |-> [i \in 1..Len(d) |-> MeanOf(c["GUY_CD"], i, mu_steel)],
     stddev_GUY |-> [i \in 1..Len(d) |-> StddevOf(c["GUY_CD"], i, mu_steel)],
     mean_CONDUCTOR |-> [i \in 1..Len(d) |-> MeanOf(c["CONDUCTOR_CD"], i, mu_steel)],
     stddev_CONDUCTOR |-> [i \in 1..Len(d) |-> StddevOf(c["CONDUCTOR_CD"], i, mu_steel)],
     mean_OGW |-> [i \in 1..Len(d) |-> MeanOf(c["OGW_CD"], i, mu_steel)],
     stddev_OGW |-> [i \in 1..Len(d) |-> StddevOf(c["OGW_CD"], i, mu_steel)],
     mean_HI |-> [i \in 1..Len(d) |-> MeanOf(c["HARDWARE_INSUL_CD"], i, mu_steel)],
     stddev_HI |-> [i \in 1..Len(d) |-> StddevOf(c["HARDWARE_INSUL_CD"], i, mu_steel)],
     mean_FOUNDATION |-> [i \in 1..Len(d) |-> MeanOf(c["FOUNDATION_CD"], i, MuOf(d[i]))],
     stddev_FOUNDATION |-> [i \in 1..Len(d) |-> StddevOf(c["FOUNDATION_CD"], i, MuOf(d[i]))],
     mean_STUB_SPLICE |-> [i \in 1..Len(d) |-> MeanOf(c["STUB_SPLICE_CD"], i, MuOf(d[i]))],
     stddev_STUB_SPLICE |-> [i \in 1..Len(d) |-> StddevOf(c["STUB_SPLICE_CD"], i, MuOf(d[i]))],
     mean_STRUCT_ATTACH |-> [i \in 1..Len(d) |-> MeanOf(c["STRUCT_ATTACH_CD"], i, MuOf(d[i]))],
     stddev_STRUCT_ATTACH |-> [i \in 1..Len(d) |-> StddevOf(c["STRUCT_ATTACH_CD"], i, MuOf(d[i]))]]

\* line 789, for the structure of row i
ProbFailRow(ws, m, i) ==
    ComputeProbabilityFailureLogNorm(ws, m.mean_ANCHOR[i], m.stddev_ANCHOR[i],
        m.mean_GUY[i], m.stddev_GUY[i], m.mean_FOUNDATION[i], m.stddev_FOUNDATION[i],
        m.mean_STUB_SPLICE[i], m.stddev_STUB_SPLICE[i],
        m.mean_STRUCT_ATTACH[i], m.stddev_STRUCT_ATTACH[i],
        m.mean_CONDUCTOR[i], m.stddev_CONDUCTOR[i], m.mean_OGW[i], m.stddev_OGW[i],
        m.mean_HI[i], m.stddev_HI[i])

(***************************************************************************)
(* The input table.  Rows of df0 as the SQL query of lines 248-262 returns *)
(* them; numbers are Scale-d except the years, the codes and SPLICES.      *)
(***************************************************************************)
NumStructures == 2     \* rows of df0 in a run
MaxCode == 8           \* Pronto codes range over 0 .. MaxCode, or are missing
MaxSplices == 6        \* SPLICES ranges over 0 .. MaxSplices

CodeFields ==
    {"ANCHOR_CD", "GUY_CD", "STRUCTURE_CD", "FOUNDATION_CD", "CROSSARMS_CD",
     "FRAME_ATTACH_CD", "STRUCT_ATTACH_CD", "STUB_SPLICE_CD", "CONDUCTOR_CD",
     "OGW_CD", "HARDWARE_INSUL_CD"}

Codes == (0..MaxCode) \cup {NaNCode}

\* cb: the codes of the themes with one name; cs: the codes under the steel
\* names; cw: the codes under the wood names
MkRow(m, yr, mod, wear, spl, ag, wet, cor, cb, cs, cw) ==
    [MATERIAL_FLAG |-> m, INSTALLED_YEAR |-> yr, OUTAGE_DESIGNLIFE_MOD |-> mod,
     WEAR_FATIGUE_RED_FAC |-> wear, SPLICES |-> spl,
     AGRICULTURE |-> ag, WETLAND_TYPE |-> wet, CORROSION_ZONE |-> cor,
     ANCHOR_CD |-> cb, GUY_CD |-> cb, CONDUCTOR_CD |-> cb, OGW_CD |-> cb,
     HARDWARE_INSUL_CD |-> cb,
     FOUNDATION_CD |-> cs, STUB_SPLICE_CD |-> cs, STRUCT_ATTACH_CD |-> cs,
     STRUCTURE_CD |-> cw, CROSSARMS_CD |-> cw, FRAME_ATTACH_CD |-> cw]

Materials == {"STEEL", "WOOD", "OTHER"}
Years == {NowYear, NowYear - 25, NowYear - 40}
OutageMods == {10, 0, -10, -100}
WearFactors == {0, 30}
AgricultureValues == {"Urban and Built-up Land", "Grazing Land", "Prime Farmland", "Blank", "Desert"}
WetlandValues == {"Blank", "Lake", "Estuarine and Marine Wetland", "Prime Farmland"}
CorrosionValues == {"None", "moderate", "severe", "Blank"}

\* the rows a run of the whole script is checked on
Structures ==
    { MkRow("STEEL", NowYear - 25, 0, 0, 0, "Urban and Built-up Land", "Blank", "None", 1, 1, 1),
      MkRow("WOOD", NowYear - 40, 10, 30, 2, "Grazing Land", "Lake", "moderate", 2, 5, 3),
      MkRow("OTHER", NowYear - 25, -10, 30, 5, "Prime Farmland", "Blank", "severe", 3, 2, 6),
      MkRow("STEEL", NowYear - 40, 10, 0, 7, "Grazing Land", "Estuarine and Marine Wetland", "None", 7, 4, 0),
      MkRow("WOOD", NowYear - 25, -100, 0, 0, "Urban and Built-up Land", "Blank", "None", NaNCode, 0, 6),
      MkRow("OTHER", NowYear, -100, 0, 0, "Urban and Built-up Land", "Blank", "None", 1, MaxCode, 1),
      MkRow("STEEL", NowYear - 25, -100, 30, 1, "Grazing Land", "Lake", "None", 4, 3, 2),
      MkRow("WOOD", NowYear - 25, 0, 0, 0, "Blank", "Lake", "None", 1, 1, 1),
      MkRow("STEEL", NowYear, 0, 0, 0, "Urban and Built-up Land", "Blank", "None", 1, 1, 1) }

RECURSIVE Tables(_)
Tables(n) ==
    IF n = 0 THEN {<<>>}
    ELSE {Append(t, r) : t \in Tables(n - 1), r \in Structures}

\* single rows over the whole product of the factor inputs, codes fixed
FactorRows ==
    { MkRow(m, yr, mod, wear, spl, ag, wet, cor, 1, 1, 1) :
        m \in Materials, yr \in Years, mod \in OutageMods, wear \in WearFactors,
        spl \in {0, 3}, ag \in AgricultureValues, wet \in WetlandValues,
        cor \in CorrosionValues }

\* single rows over the whole product of the codes, factors fixed
CodeRows ==
    { MkRow(m, NowYear - 25, 0, 30, 2, "Grazing Land", "Blank", "moderate", cb, cs, cw) :
        m \in Materials, cb \in Codes, cs \in Codes, cw \in Codes }

\* single rows over the splice counts
SpliceRows ==
    { MkRow(m, NowYear - 25, mod, 0, spl, "Urban and Built-up Land", "Blank", "None", 1, 1, 1) :
        m \in Materials, mod \in OutageMods, spl \in 0..MaxSplices }

(***************************************************************************)
(* The script as a state machine                                           *)
(***************************************************************************)
MaxWspeed == 120       \* range(0, 121)

\* lines 380-384: the running lists of a pass
EmptyLists ==
    [design_life_adjustment |-> <<>>, design_life_adjusted |-> <<>>,
     strength_ratio |-> <<>>, design_ratio |-> <<>>, cov |-> <<>>]

NoColumns == [e \in {} |-> EmptyLists]

Entry == steel_pronto_themes[entry_i]

\* the loop's local variables of lines 409-437 before the first iteration; row
\* is the index p + 1 of the structure they were last assigned for
NoFactors ==
    [row |-> 0, outage_density_red_factor |-> 0, splice_density_red_factor |-> 0,
     wear_fatigue_red_factor |-> 0, soil_corrosivity_red_factor |-> 0,
     atmospheric_corrosivity_red_factor |-> 0]

\* lines 409-437 run to the end for structure i
FactorsOf(i, row) ==
    [row |-> i,
     outage_density_red_factor |-> outage_density_red_factor(row),
     splice_density_red_factor |-> splice_density_red_factor(row),
     wear_fatigue_red_factor |-> wear_fatigue_red_factor(row),
     soil_corrosivity_red_factor |-> soil_corrosivity_red_factor(row),
     atmospheric_corrosivity_red_factor |-> atmospheric_corrosivity_red_factor(row)]

\* the raise is at line 435 (soil assigned, atmospheric not) when the labels are
\* rows and the agriculture and wetland scores are numbers
RaisesAtAtmospheric(row) ==
    IF {row.AGRICULTURE, row.WETLAND_TYPE, row.CORROSION_ZONE} \subseteq ROW_LABELS
    THEN ERROR_MCE_NA \notin {score_agriculture(row), score_wetland(row)}
    ELSE FALSE

\* lines 409-435 up to the statement that raises: the assignments of lines
\* 409-415 are done, those after the raise are not
FactorsAtRaise(i, row, old) ==
    [row |-> i,
     outage_density_red_factor |-> outage_density_red_factor(row),
     splice_density_red_factor |-> splice_density_red_factor(row),
     wear_fatigue_red_factor |-> wear_fatigue_red_factor(row),
     soil_corrosivity_red_factor |->
        IF RaisesAtAtmospheric(row) THEN soil_corrosivity_red_factor(row)
        ELSE old.soil_corrosivity_red_factor,
     atmospheric_corrosivity_red_factor |-> old.atmospheric_corrosivity_red_factor]

\* a sink nothing was written to
Unwritten ==
    [written |-> FALSE, cols |-> NoColumns, dist |-> <<>>, pf |-> <<>>,
     DATETIME |-> "unset", dropped |-> {}]

\* nothing of the output section has run
NoOutputs ==
    /\ drop_list = "unbound"
    /\ DATETIME = "unset"
    /\ csv_file = Unwritten
    /\ db_table = Unwritten
    /\ printed = <<>>

Init ==
    /\ pc = "read"
    /\ df0 = <<>>
    /\ entry_i = 1
    /\ p = 0
    /\ lists = EmptyLists
    /\ cols = NoColumns
    /\ dist = <<>>
    /\ wspeed = 0
    /\ pf = <<>>
    /\ factors = NoFactors
    /\ writeCSV = TRUE
    /\ writeDB = FALSE
    /\ NoOutputs

\* lines 246-262: the bulk read of the structure table
ReadDataset ==
    /\ pc = "read"
    /\ \E t \in Tables(NumStructures) : df0' = t
    /\ pc' = "calc"
    /\ UNCHANGED <<entry_i, p, lists, cols, dist, wspeed, pf, factors>>
    /\ UNCHANGED outputs

\* an iteration that reads the fields of the first structure for every p
ProcessStructure_FirstRow ==
    /\ pc = "calc"
    /\ p < Len(df0)
    /\ ~ScoresRaise(df0[p + 1])
    /\ LET r == MaterialBranch(Entry, df0[1])
       IN lists' =
            [design_life_adjustment |-> Append(lists.design_life_adjustment, r.design_life_adjustment),
             design_life_adjusted |-> Append(lists.design_life_adjusted, r.design_life_adjusted),
             strength_ratio |-> Append(lists.strength_ratio, r.strength_ratio),
             design_ratio |-> Append(lists.design_ratio, r.design_ratio),
             cov |-> Append(lists.cov, r.cov)]
    /\ p' = p + 1
    /\ factors' = FactorsOf(p + 1, df0[p + 1])
    /\ UNCHANGED <<pc, df0, entry_i, cols, dist, wspeed, pf>>
    /\ UNCHANGED outputs

\* lines 396-741: one iteration of "for p in range(...)" that completes
ProcessStructure ==
    /\ pc = "calc"
    /\ p < Len(df0)
    /\ ~ScoresRaise(df0[p + 1])
    /\ LET r == MaterialBranch(Entry, df0[p + 1])
       IN lists' =
            [design_life_adjustment |-> Append(lists.design_life_adjustment, r.design_life_adjustment),
             design_life_adjusted |-> Append(lists.design_life_adjusted, r.design_life_adjusted),
             strength_ratio |-> Append(lists.strength_ratio, r.strength_ratio),
             design_ratio |-> Append(lists.design_ratio, r.design_ratio),
             cov |-> Append(lists.cov, r.cov)]
    /\ p' = p + 1
    /\ factors' = FactorsOf(p + 1, df0[p + 1])
    /\ UNCHANGED <<pc, df0, entry_i, cols, dist, wspeed, pf>>
    /\ UNCHANGED outputs

\* lines 417-435: an iteration whose score lookups or max()/float() raise; the
\* script has no handler, so the run ends there
ProcessStructureRaises ==
    /\ pc = "calc"
    /\ p < Len(df0)
    /\ ScoresRaise(df0[p + 1])
    /\ pc' = "failed"
    /\ factors' = FactorsAtRaise(p + 1, df0[p + 1], factors)
    /\ UNCHANGED <<df0, entry_i, p, lists, cols, dist, wspeed, pf>>
    /\ UNCHANGED outputs

\* the end of a pass that leaves the running lists as they are for the next
AppendColumns_KeepLists ==
    /\ pc = "calc"
    /\ p = Len(df0)
    /\ cols' = [e \in DOMAIN cols \cup {Entry} |-> IF e = Entry THEN lists ELSE cols[e]]
    /\ IF entry_i < Len(steel_pronto_themes)
       THEN /\ entry_i' = entry_i + 1
            /\ p' = 0
            /\ pc' = "calc"
            /\ UNCHANGED lists
       ELSE /\ pc' = "mean"
            /\ UNCHANGED <<entry_i, p, lists>>
    /\ UNCHANGED <<df0, dist, wspeed, pf, factors>>
    /\ UNCHANGED outputs

\* the end of a pass that starts the same theme again
AppendColumns_SamePass ==
    /\ pc = "calc"
    /\ p = Len(df0)
    /\ cols' = [e \in DOMAIN cols \cup {Entry} |-> IF e = Entry THEN lists ELSE cols[e]]
    /\ entry_i' = entry_i
    /\ p' = 0
    /\ lists' = EmptyLists
    /\ pc' = "calc"
    /\ UNCHANGED <<df0, dist, wspeed, pf, factors>>
    /\ UNCHANGED outputs

\* lines 743-748 and the start of the next pass (lines 379-394)
AppendColumns ==
    /\ pc = "calc"
    /\ p = Len(df0)
    /\ cols' = [e \in DOMAIN cols \cup {Entry} |-> IF e = Entry THEN lists ELSE cols[e]]
    /\ IF entry_i < Len(steel_pronto_themes)
       THEN /\ entry_i' = entry_i + 1
            /\ p' = 0
            /\ lists' = EmptyLists
            /\ pc' = "calc"
       ELSE /\ pc' = "mean"
            /\ UNCHANGED <<entry_i, p, lists>>
    /\ UNCHANGED <<df0, dist, wspeed, pf, factors>>
    /\ UNCHANGED outputs

\* lines 759-781
ComputeMeanStddev ==
    /\ pc = "mean"
    /\ dist' = MeanStddevColumns(df0, cols)
    /\ pc' = "sweep"
    /\ UNCHANGED <<df0, entry_i, p, lists, cols, wspeed, pf, factors>>
    /\ UNCHANGED outputs

\* a sweep in steps of two
SweepStep_ByTwo ==
    /\ pc = "sweep"
    /\ wspeed <= MaxWspeed
    /\ pf' = Append(pf, [i \in 1..Len(df0) |-> ProbFailRow(wspeed, dist, i)])
    /\ wspeed' = wspeed + 2
    /\ pc' = IF wspeed >= MaxWspeed - 1 THEN "swept" ELSE "sweep"
    /\ UNCHANGED <<df0, entry_i, p, lists, cols, dist, factors>>
    /\ UNCHANGED outputs

\* lines 787-789: one iteration of "for wspeed in range(0,121)"
SweepStep ==
    /\ pc = "sweep"
    /\ wspeed <= MaxWspeed
    /\ pf' = Append(pf, [i \in 1..Len(df0) |-> ProbFailRow(wspeed, dist, i)])
    /\ wspeed' = wspeed + 1
    /\ pc' = IF wspeed = MaxWspeed THEN "swept" ELSE "sweep"
    /\ UNCHANGED <<df0, entry_i, p, lists, cols, dist, factors>>
    /\ UNCHANGED outputs

Next ==
    \/ ReadDataset
    \/ ProcessStructure
    \/ ProcessStructureRaises
    \/ AppendColumns
    \/ ComputeMeanStddev
    \/ SweepStep

Spec == Init /\ [][Next]_vars

(***************************************************************************)
(* The per-theme passes alone, over one structure drawn from the product   *)
(* of the inputs.                                                          *)
(***************************************************************************)
InitCalc ==
    /\ pc = "calc"
    /\ df0 \in {<<r>> : r \in FactorRows \cup CodeRows \cup SpliceRows}
    /\ entry_i = 1
    /\ p = 0
    /\ lists = EmptyLists
    /\ cols = NoColumns
    /\ dist = <<>>
    /\ wspeed = 0
    /\ pf = <<>>
    /\ factors = NoFactors
    /\ writeCSV = TRUE
    /\ writeDB = FALSE
    /\ NoOutputs

NextCalc ==
    \/ ProcessStructure
    \/ ProcessStructureRaises
    \/ AppendColumns

SpecCalc == InitCalc /\ [][NextCalc]_vars

(***************************************************************************)
(* The whole script, output section included (lines 795-1010), with the    *)
(* two flags of the INPUT section as inputs of the run.                    *)
(***************************************************************************)
\* the rows the whole run is checked on: a STEEL row, an OTHER row with a
\* negative outage factor, an OTHER row with a code above 7, and a WOOD row
\* whose agriculture label makes the score lookup raise
SampleStructures ==
    { MkRow("STEEL", NowYear - 25, 0, 0, 0, "Urban and Built-up Land", "Blank", "None", 1, 1, 1),
      MkRow("OTHER", NowYear - 25, -10, 30, 5, "Prime Farmland", "Blank", "severe", 3, 2, 6),
      MkRow("OTHER", NowYear, -100, 0, 0, "Urban and Built-up Land", "Blank", "None", 1, MaxCode, 1),
      MkRow("WOOD", NowYear - 25, 0, 0, 0, "Blank", "Lake", "None", 1, 1, 1) }

RECURSIVE SampleTables(_)
SampleTables(n) ==
    IF n = 0 THEN {<<>>}
    ELSE {Append(t, r) : t \in SampleTables(n - 1), r \in SampleStructures}

\* lines 246-262: the bulk read, over the sample rows
ReadSampleDataset ==
    /\ pc = "read"
    /\ \E t \in SampleTables(NumStructures) : df0' = t
    /\ pc' = "calc"
    /\ UNCHANGED <<entry_i, p, lists, cols, dist, wspeed, pf, factors>>
    /\ UNCHANGED outputs

\* lines 801-804
drop_list_columns ==
    {"WEAR_FATIGUE_RED_FAC", "AGRICULTURE", "WETLAND_TYPE", "CORROSION_ZONE",
     "INSTALLED_YEAR", "MATERIAL_FLAG", "ANCHOR_CD", "GUY_CD", "STRUCTURE_CD",
     "FOUNDATION_CD", "CROSSARMS_CD", "FRAME_ATTACH_CD", "STRUCT_ATTACH_CD",
     "STUB_SPLICE_CD", "CONDUCTOR_CD", "OGW_CD", "HARDWARE_INSUL_CD", "SPLICES",
     "TLINE_MILES", "OUTAGE_DESIGNLIFE_MOD"}

\* df0.drop(columns = drop_list) as it stands when a sink is written: the
\* computed columns, without the input columns of drop_list
TableWritten ==
    [written |-> TRUE, cols |-> cols, dist |-> dist, pf |-> pf,
     DATETIME |-> DATETIME, dropped |-> drop_list_columns]

\* the timestamp stored under the name of an input column
AddDatetime_OverInstalledYear ==
    /\ pc = "swept"
    /\ df0' = [i \in 1..Len(df0) |-> [df0[i] EXCEPT !.INSTALLED_YEAR = NowYear + 1]]
    /\ pc' = "csv"
    /\ UNCHANGED <<entry_i, p, lists, cols, dist, wspeed, pf, factors>>
    /\ UNCHANGED outputs

\* line 795
AddDatetime ==
    /\ pc = "swept"
    /\ DATETIME' = "now"
    /\ pc' = "csv"
    /\ UNCHANGED <<df0, entry_i, p, lists, cols, dist, wspeed, pf, factors>>
    /\ UNCHANGED <<writeCSV, writeDB, drop_list, csv_file, db_table, printed>>

\* the CSV write taken as soon as the sweep has started
WriteCSV_DuringSweep ==
    /\ pc = "sweep"
    /\ writeCSV
    /\ printed' = Append(printed, "Writing to csv")
    /\ drop_list' = "bound"
    /\ csv_file' = TableWritten
    /\ pc' = "db"
    /\ UNCHANGED <<df0, entry_i, p, lists, cols, dist, wspeed, pf, factors>>
    /\ UNCHANGED <<writeCSV, writeDB, DATETIME, db_table>>

\* lines 798-805, to_csv succeeds
WriteCSV ==
    /\ pc = "csv"
    /\ writeCSV
    /\ printed' = Append(printed, "Writing to csv")
    /\ drop_list' = "bound"
    /\ csv_file' = TableWritten
    /\ pc' = "db"
    /\ UNCHANGED <<df0, entry_i, p, lists, cols, dist, wspeed, pf, factors>>
    /\ UNCHANGED <<writeCSV, writeDB, DATETIME, db_table>>

\* lines 798-805, to_csv raises (the file cannot be written): the statement is
\* in no try block, so the run ends there
WriteCSVRaises ==
    /\ pc = "csv"
    /\ writeCSV
    /\ printed' = Append(printed, "Writing to csv")
    /\ drop_list' = "bound"
    /\ pc' = "failed"
    /\ UNCHANGED <<df0, entry_i, p, lists, cols, dist, wspeed, pf, factors>>
    /\ UNCHANGED <<writeCSV, writeDB, DATETIME, csv_file, db_table>>

\* line 798 with writeCSV False
SkipCSV ==
    /\ pc = "csv"
    /\ ~writeCSV
    /\ pc' = "db"
    /\ UNCHANGED <<df0, entry_i, p, lists, cols, dist, wspeed, pf, factors>>
    /\ UNCHANGED outputs

\* lines 808-811 and 1000-1010: the first statement of the try block calls
\* urllib.parse.quote_plus with keyword arguments it does not take, which
\* raises TypeError before df0.replace, drop_list or to_sql are reached; the
\* bare except prints the message and the script runs to its last line
WriteDBRaises ==
    /\ pc = "db"
    /\ writeDB
    /\ printed' = printed \o <<"Writing to database", "Error writing to database">>
    /\ pc' = "done"
    /\ UNCHANGED <<df0, entry_i, p, lists, cols, dist, wspeed, pf, factors>>
    /\ UNCHANGED <<writeCSV, writeDB, drop_list, DATETIME, csv_file, db_table>>

\* line 808 with writeDB False, and line 1010
SkipDB ==
    /\ pc = "db"
    /\ ~writeDB
    /\ pc' = "done"
    /\ UNCHANGED <<df0, entry_i, p, lists, cols, dist, wspeed, pf, factors>>
    /\ UNCHANGED outputs

\* lines 236-237 are edited by the user of the script: any pair of flags
InitRun ==
    /\ pc = "read"
    /\ df0 = <<>>
    /\ entry_i = 1
    /\ p = 0
    /\ lists = EmptyLists
    /\ cols = NoColumns
    /\ dist = <<>>
    /\ wspeed = 0
    /\ pf = <<>>
    /\ factors = NoFactors
    /\ writeCSV \in BOOLEAN
    /\ writeDB \in BOOLEAN
    /\ NoOutputs

NextRun ==
    \/ ReadSampleDataset
    \/ ProcessStructure
    \/ ProcessStructureRaises
    \/ AppendColumns
    \/ ComputeMeanStddev
    \/ SweepStep
    \/ AddDatetime
    \/ WriteCSV
    \/ WriteCSVRaises
    \/ SkipCSV
    \/ WriteDBRaises
    \/ SkipDB

SpecRun == InitRun /\ [][NextRun]_vars

\* the position of the script: the statement it is at and its loop counters
ctl == <<pc, entry_i, p, wspeed>>

\* the control flow of NextRun: for each of its actions the guard and what it
\* does to the position (lines 246, 379, 396, 743, 759, 787, 795, 798, 808, 1010)
Control ==
    \/ /\ pc = "read"
       /\ pc' = "calc"
       /\ UNCHANGED <<entry_i, p, wspeed>>
    \/ /\ pc = "calc" /\ p < Len(df0) /\ ~ScoresRaise(df0[p + 1])
       /\ p' = p + 1
       /\ UNCHANGED <<pc, entry_i, wspeed>>
    \/ /\ pc = "calc" /\ p < Len(df0) /\ ScoresRaise(df0[p + 1])
       /\ pc' = "failed"
       /\ UNCHANGED <<entry_i, p, wspeed>>
    \/ /\ pc = "calc" /\ p = Len(df0) /\ entry_i < Len(steel_pronto_themes)
       /\ entry_i' = entry_i + 1 /\ p' = 0
       /\ UNCHANGED <<pc, wspeed>>
    \/ /\ pc = "calc" /\ p = Len(df0) /\ entry_i = Len(steel_pronto_themes)
       /\ pc' = "mean"
       /\ UNCHANGED <<entry_i, p, wspeed>>
    \/ /\ pc = "mean"
       /\ pc' = "sweep"
       /\ UNCHANGED <<entry_i, p, wspeed>>
    \/ /\ pc = "sweep" /\ wspeed <= MaxWspeed
       /\ wspeed' = wspeed + 1
       /\ pc' = IF wspeed = MaxWspeed THEN "swept" ELSE "sweep"
       /\ UNCHANGED <<entry_i, p>>
    \/ /\ pc = "swept"
       /\ pc' = "csv"
       /\ UNCHANGED <<entry_i, p, wspeed>>
    \/ /\ pc = "csv"
       /\ pc' \in (IF writeCSV THEN {"db", "failed"} ELSE {"db"})
       /\ UNCHANGED <<entry_i, p, wspeed>>
    \/ /\ pc = "db"
       /\ pc' = "done"
       /\ UNCHANGED <<entry_i, p, wspeed>>

\* the interpreter runs the script's next statement as long as there is one:
\* the position moves on whenever the control flow has a step to take
SpecRunFair == SpecRun /\ WF_ctl(Control)

(***************************************************************************)
(* Properties                                                              *)
(***************************************************************************)
\* the columns "_<v>_mph" a state is checked on: all of them once the sweep
\* has ended, the one just written while it runs (index v + 1 in pf)
CheckedColumns == IF pc = "swept" THEN 1..Len(pf) ELSE {Len(pf)} \ {0}

\* the eight components' failure probabilities of structure i at wind speed ws,
\* in the order ANCHOR, GUY, FOUNDATION, STUB_SPLICE, STRUCT_ATTACH, CONDUCTOR,
\* OGW, HARDWARE_INSULATORS
ComponentCdfs(ws, i) ==
    <<LognormCdf(ws, dist.mean_ANCHOR[i], dist.stddev_ANCHOR[i]),
      LognormCdf(ws, dist.mean_GUY[i], dist.stddev_GUY[i]),
      LognormCdf(ws, dist.mean_FOUNDATION[i], dist.stddev_FOUNDATION[i]),
      LognormCdf(ws, dist.mean_STUB_SPLICE[i], dist.stddev_STUB_SPLICE[i]),
      LognormCdf(ws, dist.mean_STRUCT_ATTACH[i], dist.stddev_STRUCT_ATTACH[i]),
      LognormCdf(ws, dist.mean_CONDUCTOR[i], dist.stddev_CONDUCTOR[i]),
      LognormCdf(ws, dist.mean_OGW[i], dist.stddev_OGW[i]),
      LognormCdf(ws, dist.mean_HI[i], dist.stddev_HI[i])>>

AllNum(Fs) == \A k \in 1..Len(Fs) : IsNum(Fs[k])

\* product of (1 - F_k) over the first n components, each taken once
RECURSIVE SurvivalProduct(_, _)
SurvivalProduct(Fs, n) ==
    IF n = 1 THEN PScale - Fs[1].v
    ELSE (SurvivalProduct(Fs, n - 1) * (PScale - Fs[n].v)) \div PScale

\* largest F_k over the first n components
RECURSIVE LargestCdf(_, _)
LargestCdf(Fs, n) ==
    IF n = 1 THEN Fs[1].v ELSE Max(LargestCdf(Fs, n - 1), Fs[n].v)

IndependenceTerm(Fs) == PScale - SurvivalProduct(Fs, Len(Fs))
MaxTerm(Fs) == LargestCdf(Fs, Len(Fs))

\* (1 - F)^n
RECURSIVE SurvivalPower(_, _)
SurvivalPower(F, n) ==
    IF n = 1 THEN PScale - F ELSE (SurvivalPower(F, n - 1) * (PScale - F)) \div PScale

BlendedAt(v, i) ==
    LET Fs == ComponentCdfs(v - 1, i)
    IN IF AllNum(Fs)
       THEN /\ pf[v][i] = Num((IndependenceTerm(Fs) + MaxTerm(Fs)) \div 2)
            /\ MaxTerm(Fs) <= pf[v][i].v
            /\ pf[v][i].v <= IndependenceTerm(Fs)
            /\ (IndependenceTerm(Fs) - MaxTerm(Fs) >= 2
                  => MaxTerm(Fs) < pf[v][i].v /\ pf[v][i].v < IndependenceTerm(Fs))
            /\ ((\A k \in 1..8 : Fs[k] = Fs[1])
                  => pf[v][i].v = ((PScale - SurvivalPower(Fs[1].v, 8)) + Fs[1].v) \div 2)
       ELSE pf[v][i] = NaN

\* C1: every stored probability of failure is the blend
\* ((1 - product of (1 - F_i)) + max F_i) / 2 over the eight components, each
\* taken once; it lies between the max-only and the independence-only term,
\* strictly when they differ; for eight identical components with failure
\* probability F it is ((1 - (1 - F)^8) + F) / 2.
C1_BlendedFormula ==
    \A v \in CheckedColumns : \A i \in 1..Len(df0) : BlendedAt(v, i)

\* a column holds, for some structure, a blend of unequal component
\* probabilities, and for another the blend of eight identical ones
C1_Witness ==
    /\ pc = "swept"
    /\ \E v \in 1..Len(pf) : \E i \in 1..Len(df0) :
         LET Fs == ComponentCdfs(v - 1, i)
         IN AllNum(Fs) /\ IndependenceTerm(Fs) - MaxTerm(Fs) >= 2
            /\ \E k \in 1..8 : Fs[k] # Fs[1]
    /\ \E v \in 1..Len(pf) : \E i \in 1..Len(df0) :
         LET Fs == ComponentCdfs(v - 1, i)
         IN AllNum(Fs) /\ (\A k \in 1..8 : Fs[k] = Fs[1])
            /\ Fs[1].v > 0 /\ Fs[1].v < PScale

\* IEEE comparison: false when a side is nan
FLe(a, b) == IsNum(a) /\ IsNum(b) /\ a.v <= b.v

\* C2: for any two wind speeds v1 < v2 of the sweep, p_fail(v1) <= p_fail(v2)
\* for every structure.
C2_MonotoneCurve ==
    pc = "swept" =>
        \A i \in 1..Len(df0) : \A v1 \in 1..Len(pf) : \A v2 \in (v1 + 1)..Len(pf) :
            FLe(pf[v1][i], pf[v2][i])

\* the curve is nondecreasing for every structure whose curve holds numbers
C2_MonotoneWhereDefined ==
    pc = "swept" =>
        \A i \in 1..Len(df0) : \A v \in 1..(Len(pf) - 1) :
            IsNum(pf[v][i]) /\ IsNum(pf[v + 1][i]) => pf[v][i].v <= pf[v + 1][i].v

\* C3: every stored probability of failure is a number in [0, 1].
C3_ProbabilityInUnitInterval ==
    \A v \in CheckedColumns : \A i \in 1..Len(df0) :
        IsNum(pf[v][i]) /\ 0 <= pf[v][i].v /\ pf[v][i].v <= PScale

(***************************************************************************)
(* The design life adjustment as the specification states it               *)
(***************************************************************************)
\* the fixed subset of "other factors" of a family
FamilyFactors(entry, row) ==
    IF entry = "CONDUCTOR_CD"
    THEN <<wear_fatigue_red_factor(row), splice_density_red_factor(row),
           atmospheric_corrosivity_red_factor(row)>>
    ELSE IF entry = "ANCHOR_CD" THEN <<soil_corrosivity_red_factor(row)>>
    ELSE IF entry = "GUY_CD" THEN <<atmospheric_corrosivity_red_factor(row)>>
    ELSE IF entry \in {"OGW_CD", "HARDWARE_INSUL_CD"}
    THEN <<soil_corrosivity_red_factor(row), atmospheric_corrosivity_red_factor(row)>>
    ELSE IF entry = "FOUNDATION_CD"
    THEN <<wear_fatigue_red_factor(row), soil_corrosivity_red_factor(row),
           atmospheric_corrosivity_red_factor(row)>>
    ELSE <<wear_fatigue_red_factor(row), atmospheric_corrosivity_red_factor(row)>>

RECURSIVE SumSquares(_, _)
SumSquares(xs, n) == IF n = 0 THEN 0 ELSE SumSquares(xs, n - 1) + xs[n] * xs[n]

\* root-sum-square of the factors xs and of the extra factor x
RSS(xs, x) == Sqrt(SumSquares(xs, Len(xs)) + x * x)

\* the pairs (theme, structure) whose columns are stored
Stored == {<<e, i>> : e \in DOMAIN cols, i \in 1..Len(df0)}

\* C4: with a negative outage-density factor, every family's adjustment is
\* (1 - RSS(other factors)) * (1 - outage factor).
C4_NegativeBranch ==
    \A s \in Stored :
        LET row == df0[s[2]]
            o == outage_density_red_factor(row)
        IN o < 0 =>
             cols[s[1]].design_life_adjustment[s[2]]
               = ((Scale - RSS(FamilyFactors(s[1], row), 0)) * (Scale - o)) \div Scale

\* C5: with a zero or positive outage-density factor, every family's
\* adjustment is 1 - RSS(the family's subset, outage factor), whatever the
\* material flag.
C5_RootSumSquareBranch ==
    \A s \in Stored :
        LET row == df0[s[2]]
            o == outage_density_red_factor(row)
        IN o >= 0 =>
             cols[s[1]].design_life_adjustment[s[2]]
               = Scale - RSS(FamilyFactors(s[1], row), o)

\* C6: a structure whose flag is neither STEEL nor WOOD gets the values a
\* STEEL structure with the same remaining fields gets.
C6_OtherAsSteel ==
    \A s \in Stored :
        LET row == df0[s[2]]
            steel == SteelBranch(s[1], [row EXCEPT !.MATERIAL_FLAG = "STEEL"])
        IN row.MATERIAL_FLAG \notin {"STEEL", "WOOD"} =>
             /\ cols[s[1]].design_life_adjustment[s[2]] = steel.design_life_adjustment
             /\ cols[s[1]].design_life_adjusted[s[2]] = steel.design_life_adjusted
             /\ cols[s[1]].cov[s[2]] = steel.cov
             /\ cols[s[1]].strength_ratio[s[2]] = steel.strength_ratio
             /\ cols[s[1]].design_ratio[s[2]] = steel.design_ratio

\* C7: a pair whose adjusted design life is zero or negative is rejected, so no
\* stored pair has one (and none holds a cov computed from it).
C7_DegenerateLifeRejected ==
    \A s \in Stored : cols[s[1]].design_life_adjusted[s[2]] > 0

(***************************************************************************)
(* Material aliasing as the specification states it                        *)
(***************************************************************************)
\* the name a family goes by for a material flag
AliasedName(entry, flag) ==
    IF flag # "WOOD" THEN entry
    ELSE IF entry = "FOUNDATION_CD" THEN "STRUCTURE_CD"
    ELSE IF entry = "STRUCT_ATTACH_CD" THEN "FRAME_ATTACH_CD"
    ELSE IF entry = "STUB_SPLICE_CD" THEN "CROSSARMS_CD"
    ELSE entry

\* C8: adjusted design life = adjustment * nominal design life, and with a
\* positive adjusted design life
\* cov = cov_low + (cov_high - cov_low) * (age / adjusted design life)^2,
\* the three constants being rows 0, 1, 2 of the family's aliased column.
C8_CovFormula ==
    \A s \in Stored :
        LET row == df0[s[2]]
            k == df_reliability_calcs_constants[AliasedName(s[1], row.MATERIAL_FLAG)]
            age == NowYear - row.INSTALLED_YEAR
            adj == cols[s[1]].design_life_adjusted[s[2]]
        IN /\ adj = cols[s[1]].design_life_adjustment[s[2]] * k[3]
           /\ adj > 0 =>
                cols[s[1]].cov[s[2]]
                  = Num(k[1] + ((k[2] - k[1]) * ((age * age * Scale * Scale * Scale) \div (adj * adj)))
                                 \div Scale)

\* a WOOD structure's aliased family and a STEEL structure's family are stored
\* with a positive adjusted life, a positive age and a cov above cov_low
C8_Witness ==
    \E s \in Stored :
        /\ s[1] = "FOUNDATION_CD"
        /\ df0[s[2]].MATERIAL_FLAG = "WOOD"
        /\ df0[s[2]].INSTALLED_YEAR < NowYear
        /\ cols[s[1]].design_life_adjusted[s[2]] > 0
        /\ IsNum(cols[s[1]].cov[s[2]])
        /\ cols[s[1]].cov[s[2]].v > df_reliability_calcs_constants["STRUCTURE_CD"][1]
        /\ cols[s[1]].cov[s[2]].v < df_reliability_calcs_constants["STRUCTURE_CD"][2]

\* the strength ratio of a condition code
RatioOfCode(c) ==
    IF c = NaNCode \/ c = 0 THEN Scale
    ELSE IF c = 2 THEN 92
    ELSE Scale - ((c - 1) * Scale) \div 6

\* C9: for every material flag and family the strength ratio is 1 for code 0
\* or a missing code, 0.92 for code 2 and 1 - (c - 1)/6 otherwise; code 1
\* gives 1 and code 7 gives 0.
C9_StrengthRatio ==
    \A s \in Stored :
        LET row == df0[s[2]]
            c == row[AliasedName(s[1], row.MATERIAL_FLAG)]
            ratio == cols[s[1]].strength_ratio[s[2]]
        IN /\ ratio = RatioOfCode(c)
           /\ c = 1 => ratio = Scale
           /\ c = 7 => ratio = 0
           /\ c = 2 => ratio = 92

\* a WOOD structure's passes have stored the ratio 0.92 of a code 2 and,
\* under the aliased name of FOUNDATION_CD, the ratio 0 of a code 7
C9_Witness ==
    \E i \in 1..Len(df0) :
        /\ df0[i].MATERIAL_FLAG = "WOOD"
        /\ {"ANCHOR_CD", "FOUNDATION_CD"} \subseteq DOMAIN cols
        /\ df0[i].ANCHOR_CD = 2
        /\ cols["ANCHOR_CD"].strength_ratio[i] = 92
        /\ df0[i].STRUCTURE_CD = 7
        /\ cols["FOUNDATION_CD"].strength_ratio[i] = 0

AliasedPairs ==
    {<<"FOUNDATION_CD", "STRUCTURE_CD">>, <<"STRUCT_ATTACH_CD", "FRAME_ATTACH_CD">>,
     <<"STUB_SPLICE_CD", "CROSSARMS_CD">>}

\* C10: for a WOOD structure and each aliased pair the stored strength ratio is
\* the one a STEEL structure holding the wood field's code in the steel field
\* gets, and the WOOD structure's own steel-named field has no effect on it.
C10_WoodAliasing ==
    \A s \in Stored : \A a \in AliasedPairs :
        LET row == df0[s[2]]
        IN (row.MATERIAL_FLAG = "WOOD" /\ s[1] = a[1]) =>
             /\ cols[s[1]].strength_ratio[s[2]]
                  = SteelBranch(a[1], [row EXCEPT !.MATERIAL_FLAG = "STEEL",
                                                  ![a[1]] = row[a[2]]]).strength_ratio
             /\ \A c \in Codes :
                  MaterialBranch(a[1], [row EXCEPT ![a[1]] = c]).strength_ratio
                    = cols[s[1]].strength_ratio[s[2]]

\* all three aliased families of a WOOD structure are stored, the wood fields
\* holding a code whose ratio differs from that of the steel-named fields
C10_Witness ==
    \E i \in 1..Len(df0) :
        /\ df0[i].MATERIAL_FLAG = "WOOD"
        /\ \A a \in AliasedPairs :
             /\ a[1] \in DOMAIN cols
             /\ RatioOfCode(df0[i][a[1]]) # RatioOfCode(df0[i][a[2]])
             /\ cols[a[1]].strength_ratio[i] = RatioOfCode(df0[i][a[2]])


(***************************************************************************)
(* One name per pair for the condition code and for the constants          *)
(***************************************************************************)
\* the stored values of pair s are those of code field n and constants column n
ReadsUnder(s, n) ==
    LET row == df0[s[2]]
        k == df_reliability_calcs_constants[n]
        age == NowYear - row.INSTALLED_YEAR
        adj == cols[s[1]].design_life_adjusted[s[2]]
    IN /\ cols[s[1]].strength_ratio[s[2]] = RatioOfCode(row[n])
       /\ adj = cols[s[1]].design_life_adjustment[s[2]] * k[3]
       /\ adj > 0 =>
            cols[s[1]].cov[s[2]]
              = FAdd(Num(k[1]), FMul(Num(k[2] - k[1]),
                                     FDiv(age * age * Scale * Scale, adj * adj, Scale), Scale))

\* C11: for every stored pair the condition code and the three constants are
\* read under one and the same name: the steel name for STEEL and OTHER/UNKNOWN
\* structures, the wood alias for WOOD structures.
C11_OneNameForCodeAndConstants ==
    \A s \in Stored : ReadsUnder(s, AliasedName(s[1], df0[s[2]].MATERIAL_FLAG))

\* a WOOD structure's FOUNDATION_CD pair is stored, and neither its ratio nor
\* its adjusted life is the one the steel name would give
C11_Witness ==
    \E s \in Stored :
        LET row == df0[s[2]]
        IN /\ s[1] = "FOUNDATION_CD"
           /\ row.MATERIAL_FLAG = "WOOD"
           /\ RatioOfCode(row.STRUCTURE_CD) # RatioOfCode(row.FOUNDATION_CD)
           /\ cols[s[1]].design_life_adjusted[s[2]] > 0
           /\ cols[s[1]].design_life_adjusted[s[2]]
                # cols[s[1]].design_life_adjustment[s[2]]
                    * df_reliability_calcs_constants["FOUNDATION_CD"][3]


(***************************************************************************)
(* Scores that are not numbers                                             *)
(***************************************************************************)
InTable(row) ==
    {row.AGRICULTURE, row.WETLAND_TYPE, row.CORROSION_ZONE} \subseteq ROW_LABELS

\* the labels are rows of the table and a score is the 'not applicable' marker
NotApplicable(row) ==
    IF InTable(row)
    THEN ERROR_MCE_NA \in {score_agriculture(row), score_wetland(row),
                           score_corrosion_atmospheric(row)}
    ELSE FALSE

SoilNotApplicable(row) ==
    IF InTable(row)
    THEN ERROR_MCE_NA \in {score_agriculture(row), score_wetland(row)}
    ELSE FALSE

AtmosphericNotApplicable(row) ==
    IF InTable(row)
    THEN ERROR_MCE_NA \in {score_wetland(row), score_corrosion_atmospheric(row)}
    ELSE FALSE

\* C12: a structure with a 'not applicable' agriculture or wetland score gets
\* the soil factor 0, one with a 'not applicable' wetland or atmospheric score
\* the atmospheric factor 0, and the run does not fail on such a structure.
C12_NotApplicableScoresZeroed ==
    /\ (pc = "failed" /\ p < Len(df0)) => ~NotApplicable(df0[p + 1])
    /\ (pc # "failed" /\ factors.row > 0) =>
         /\ SoilNotApplicable(df0[factors.row]) => factors.soil_corrosivity_red_factor = 0
         /\ AtmosphericNotApplicable(df0[factors.row])
               => factors.atmospheric_corrosivity_red_factor = 0

\* C13: the run never fails on a structure whose land use, wetland type or
\* corrosion zone is no row of the reference table.
C13_UnknownCategoryResolved ==
    (pc = "failed" /\ p < Len(df0)) => InTable(df0[p + 1])


(***************************************************************************)
(* The reduction factors of a completed iteration                          *)
(***************************************************************************)
\* an iteration has run lines 409-437 to the end for structure factors.row
FactorsAssigned == pc # "failed" /\ factors.row > 0

\* score / 2 * R_cor
HalfTimesRcor(score) == (((score * Scale) \div 2) * r_cor) \div Scale

\* C14: with three numeric scores, soil factor = max(agriculture, wetland) / 2
\* * R_cor and atmospheric factor = max(wetland, atmospheric corrosion) / 2 *
\* R_cor, both within [0, R_cor].
C14_CorrosivityFactors ==
    FactorsAssigned =>
        LET row == df0[factors.row]
            soil == factors.soil_corrosivity_red_factor
            atm == factors.atmospheric_corrosivity_red_factor
        IN /\ InTable(row) /\ ~NotApplicable(row)
           /\ soil = HalfTimesRcor(IF score_agriculture(row) >= score_wetland(row)
                                   THEN score_agriculture(row) ELSE score_wetland(row))
           /\ atm = HalfTimesRcor(IF score_wetland(row) >= score_corrosion_atmospheric(row)
                                  THEN score_wetland(row) ELSE score_corrosion_atmospheric(row))
           /\ 0 <= soil /\ soil <= r_cor
           /\ 0 <= atm /\ atm <= r_cor

\* an iteration has ended with the soil factor at R_cor, both scores of the
\* soil factor positive, and a smaller, positive atmospheric factor
C14_Witness ==
    /\ FactorsAssigned
    /\ factors.soil_corrosivity_red_factor = r_cor
    /\ score_agriculture(df0[factors.row]) = 2
    /\ score_wetland(df0[factors.row]) = 1
    /\ factors.atmospheric_corrosivity_red_factor = r_cor \div 2


\* C15: splice factor = min(splice count / 5 * R_spl, R_spl): linear in the
\* count up to 5, R_spl from 5 on, never above R_spl.
C15_SpliceFactor ==
    FactorsAssigned =>
        LET n == df0[factors.row].SPLICES
            f == factors.splice_density_red_factor
        IN /\ n <= 5 => 5 * f = n * r_spl
           /\ n >= 5 => f = r_spl
           /\ f <= r_spl

\* an iteration has ended for a structure with more than five splices
C15_Witness ==
    /\ FactorsAssigned
    /\ df0[factors.row].SPLICES > 5
    /\ factors.splice_density_red_factor = r_spl

\* the pairs whose adjustment follows the documented formulas (C4, C5 and C6
\* name the others)
DocumentedPair(s) ==
    /\ s[1] \notin {"OGW_CD", "HARDWARE_INSUL_CD"}
    /\ ~(s[1] = "GUY_CD" /\ df0[s[2]].MATERIAL_FLAG \notin {"STEEL", "WOOD"})

\* C16: the outage factor is the negated OUTAGE_DESIGNLIFE_MOD: a positive
\* modifier m takes the multiplicative branch with the factor (1 + m), a
\* negative or zero one the root-sum-square branch with |m| under the root.
\* The branches are taken as the functions write them: OGW and
\* HARDWARE_INSULATORS multiply the root-sum-square alone, and GUY of an
\* OTHER/UNKNOWN structure has the wear/fatigue factor among its factors.
C16_OutageNegated ==
    /\ FactorsAssigned =>
          factors.outage_density_red_factor = 0 - df0[factors.row].OUTAGE_DESIGNLIFE_MOD
    /\ \A s \in Stored :
          LET row == df0[s[2]]
              m == row.OUTAGE_DESIGNLIFE_MOD
              adjustment == cols[s[1]].design_life_adjustment[s[2]]
              xs == IF DocumentedPair(s) \/ s[1] # "GUY_CD" THEN FamilyFactors(s[1], row)
                    ELSE <<wear_fatigue_red_factor(row), atmospheric_corrosivity_red_factor(row)>>
          IN IF m <= 0 THEN adjustment = Scale - RSS(xs, m)
             ELSE IF s[1] \in {"OGW_CD", "HARDWARE_INSUL_CD"}
             THEN adjustment = Scale - (RSS(xs, 0) * (Scale + m)) \div Scale
             ELSE adjustment = ((Scale - RSS(xs, 0)) * (Scale + m)) \div Scale

\* a structure with a positive modifier has its CONDUCTOR_CD pair stored with
\* an adjustment above 1 - RSS of the other factors
C16_Witness ==
    \E s \in Stored :
        /\ s[1] = "CONDUCTOR_CD"
        /\ df0[s[2]].OUTAGE_DESIGNLIFE_MOD > 0
        /\ factors.outage_density_red_factor < 0
        /\ RSS(FamilyFactors(s[1], df0[s[2]]), 0) > 0
        /\ cols[s[1]].design_life_adjustment[s[2]]
             > Scale - RSS(FamilyFactors(s[1], df0[s[2]]), 0)


(***************************************************************************)
(* The distribution parameters of the eight components                     *)
(***************************************************************************)
\* <<mean column, stddev column, theme of the columns it is built from,
\*   always the steel constant>>
Components ==
    {<<"mean_ANCHOR", "stddev_ANCHOR", "ANCHOR_CD", TRUE>>,
     <<"mean_GUY", "stddev_GUY", "GUY_CD", TRUE>>,
     <<"mean_CONDUCTOR", "stddev_CONDUCTOR", "CONDUCTOR_CD", TRUE>>,
     <<"mean_OGW", "stddev_OGW", "OGW_CD", TRUE>>,
     <<"mean_HI", "stddev_HI", "HARDWARE_INSUL_CD", TRUE>>,
     <<"mean_FOUNDATION", "stddev_FOUNDATION", "FOUNDATION_CD", FALSE>>,
     <<"mean_STUB_SPLICE", "stddev_STUB_SPLICE", "STUB_SPLICE_CD", FALSE>>,
     <<"mean_STRUCT_ATTACH", "stddev_STRUCT_ATTACH", "STRUCT_ATTACH_CD", FALSE>>}

\* the mean_* / stddev_* columns have been written
DistWritten == pc \in {"sweep", "swept"}

\* strength_ratio * design_ratio of theme e for structure i
RatioProduct(e, i) == (cols[e].strength_ratio[i] * cols[e].design_ratio[i]) \div Scale

\* the nominal strength of a component for a material flag
NominalStrength(steelAlways, flag) ==
    IF steelAlways \/ flag = "STEEL" THEN mu_steel ELSE mu_wood

\* C17: mu is the steel constant for ANCHOR, GUY, CONDUCTOR, OGW and
\* HARDWARE_INSULATORS whatever the flag; for FOUNDATION, STUB_SPLICE and
\* STRUCT_ATTACH it is the steel constant for STEEL and the wood constant for
\* WOOD and every other flag.
C17_NominalStrength ==
    DistWritten =>
        \A k \in Components : \A i \in 1..Len(df0) :
            LET mu == NominalStrength(k[4], df0[i].MATERIAL_FLAG)
            IN /\ dist[k[1]][i] = RatioProduct(k[3], i) * mu
               /\ dist[k[2]][i]
                    = FMul(FMul(Num(RatioProduct(k[3], i)), cols[k[3]].cov[i], Scale), Num(mu), 1)

\* an OTHER structure has a non-zero FOUNDATION mean built with the wood
\* constant and a non-zero ANCHOR mean built with the steel constant
C17_Witness ==
    /\ DistWritten
    /\ \E i \in 1..Len(df0) :
         /\ df0[i].MATERIAL_FLAG = "OTHER"
         /\ RatioProduct("FOUNDATION_CD", i) > 0
         /\ dist.mean_FOUNDATION[i] = RatioProduct("FOUNDATION_CD", i) * mu_wood
         /\ RatioProduct("ANCHOR_CD", i) > 0
         /\ dist.mean_ANCHOR[i] = RatioProduct("ANCHOR_CD", i) * mu_steel

\* stddev is mean * cov up to the rounding of the product
StddevIsMeanTimesCov(stddev, mean, cov, mu) ==
    LET product == FMul(Num(mean), cov, Scale)
    IN IF IsNum(cov)
       THEN /\ IsNum(stddev)
            /\ 0 <= product.v - stddev.v
            /\ product.v - stddev.v < mu
       ELSE stddev = product

\* C18: for each of the eight components mean = strength_ratio * design_ratio
\* * mu and stddev = mean * cov, from the component's own three columns.
C18_OwnColumns ==
    DistWritten =>
        \A k \in Components : \A i \in 1..Len(df0) :
            \E mu \in {mu_steel, mu_wood} :
                /\ dist[k[1]][i] = RatioProduct(k[3], i) * mu
                /\ StddevIsMeanTimesCov(dist[k[2]][i], dist[k[1]][i], cols[k[3]].cov[i], mu)

\* a structure whose GUY and ANCHOR columns differ in cov has a GUY stddev
\* that is a number above 0
C18_Witness ==
    /\ DistWritten
    /\ \E i \in 1..Len(df0) :
         /\ IsNum(cols["GUY_CD"].cov[i]) /\ IsNum(cols["ANCHOR_CD"].cov[i])
         /\ cols["GUY_CD"].cov[i].v > cols["ANCHOR_CD"].cov[i].v + 1
         /\ dist.mean_GUY[i] > 0
         /\ IsNum(dist.stddev_GUY[i]) /\ dist.stddev_GUY[i].v > 0


(***************************************************************************)
(* The two branches side by side                                           *)
(***************************************************************************)
\* the adjustment the same structure gets with the outage factor +0.1
AdjustmentAtPlusTenth(s) ==
    MaterialBranch(s[1], [df0[s[2]] EXCEPT !.OUTAGE_DESIGNLIFE_MOD = 0 - (Scale \div 10)])
        .design_life_adjustment

\* C19: with the other factors equal, the adjustment stored for the outage
\* factor -0.1 differs from, and is larger than, the one for +0.1, for every
\* family.
C19_OutageSignTest ==
    \A s \in Stored :
        outage_density_red_factor(df0[s[2]]) = 0 - (Scale \div 10) =>
            cols[s[1]].design_life_adjustment[s[2]] > AdjustmentAtPlusTenth(s)

\* the same for the families whose multiplicative branch is the documented one
C19_OutageSignTestDocumented ==
    \A s \in Stored :
        (outage_density_red_factor(df0[s[2]]) = 0 - (Scale \div 10)
           /\ s[1] \notin {"OGW_CD", "HARDWARE_INSUL_CD"}) =>
            cols[s[1]].design_life_adjustment[s[2]] > AdjustmentAtPlusTenth(s)


(***************************************************************************)
(* The sweep                                                               *)
(***************************************************************************)
\* column v + 1 of pf is "_v_mph": the columns written are those of the speeds
\* 0 .. wspeed - 1, each with one value per structure, and none is written
\* before every mean_* and stddev_* column holds a value per structure
SweepColumns ==
    /\ Len(pf) = wspeed
    /\ \A v \in 1..Len(pf) : DOMAIN pf[v] = 1..Len(df0)
    /\ Len(pf) > 0 => DistWritten
    /\ DistWritten =>
         \A k \in Components :
             DOMAIN dist[k[1]] = 1..Len(df0) /\ DOMAIN dist[k[2]] = 1..Len(df0)
    /\ pc = "sweep" => wspeed <= MaxWspeed
    /\ pc = "swept" => Len(pf) = MaxWspeed + 1

\* a step that writes a column appends the column of the next speed and
\* leaves the earlier columns and the distributions as they are
SweepOrder ==
    pf' # pf =>
        /\ pc = "sweep"
        /\ wspeed' = wspeed + 1
        /\ Len(pf') = Len(pf) + 1
        /\ SubSeq(pf', 1, Len(pf)) = pf
        /\ pf'[wspeed + 1] = [i \in 1..Len(df0) |-> ProbFailRow(wspeed, dist, i)]
        /\ dist' = dist

\* C20: the sweep visits the speeds 0 .. 120 once each in increasing order,
\* writes for each speed v the column _v_mph with one probability per
\* structure, and starts only after the mean and stddev of all eight
\* components are computed for every structure.
C20_Sweep == []SweepColumns /\ [][SweepOrder]_vars

\* the sweep has ended with its 121 columns for a table of several structures
C20_Witness ==
    /\ pc = "swept"
    /\ Len(pf) = MaxWspeed + 1
    /\ Len(df0) > 1
    /\ \A v \in 1..Len(pf) : DOMAIN pf[v] = 1..Len(df0)


(***************************************************************************)
(* Order of the read, the calculations and the output writes              *)
(***************************************************************************)
Themes == {steel_pronto_themes[k] : k \in 1..Len(steel_pronto_themes)}

\* nothing has been calculated yet
NothingComputed ==
    /\ p = 0 /\ entry_i = 1
    /\ lists = EmptyLists /\ cols = NoColumns /\ factors = NoFactors
    /\ DOMAIN dist = {} /\ pf = <<>> /\ DATETIME = "unset"

\* df0 holds, for every structure, the five columns of each Pronto theme, the
\* sixteen mean_* / stddev_* columns and the 121 wind-speed columns
AllColumnsComputed ==
    /\ DOMAIN cols = Themes
    /\ \A e \in DOMAIN cols :
         /\ Len(cols[e].design_life_adjustment) = Len(df0)
         /\ Len(cols[e].design_life_adjusted) = Len(df0)
         /\ Len(cols[e].strength_ratio) = Len(df0)
         /\ Len(cols[e].design_ratio) = Len(df0)
         /\ Len(cols[e].cov) = Len(df0)
    /\ DOMAIN dist # {}
    /\ DOMAIN dist # {} =>
         \A k \in Components :
             DOMAIN dist[k[1]] = 1..Len(df0) /\ DOMAIN dist[k[2]] = 1..Len(df0)
    /\ Len(pf) = MaxWspeed + 1
    /\ \A v \in 1..Len(pf) : DOMAIN pf[v] = 1..Len(df0)

\* while the read has not completed nothing is calculated, and df0 is set by
\* the read alone
ReadFirst == pc = "read" => NothingComputed /\ df0 = <<>>

\* a step of an output write: it prints its message, binds drop_list or
\* writes a sink
WriteStep ==
    printed' # printed \/ drop_list' # drop_list \/ csv_file' # csv_file \/ db_table' # db_table

\* a write step starts from a complete table, and what it writes is that table
WriteLast ==
    WriteStep =>
        /\ AllColumnsComputed
        /\ csv_file' # csv_file => csv_file' = TableWritten
        /\ db_table' # db_table => db_table' = TableWritten

\* C21: the bulk read of the structure table completes before the first
\* per-structure calculation starts, and every output write (CSV, database)
\* starts only after the per-theme columns, the mean/stddev columns and all
\* wind-speed columns are computed for every structure.
C21_ReadFirstWriteLast == []ReadFirst /\ [][WriteLast]_vars

\* a run that wrote the CSV file and attempted the database write
C21_Witness ==
    /\ pc = "done"
    /\ csv_file.written
    /\ Len(printed) = 3
    /\ AllColumnsComputed


(***************************************************************************)
(* Every structure on its own                                              *)
(***************************************************************************)
\* the five values of theme e for a structure, from the structure's row alone
OneRowColumns(row) ==
    [e \in Themes |->
        LET r == MaterialBranch(e, row)
        IN [design_life_adjustment |-> <<r.design_life_adjustment>>,
            design_life_adjusted |-> <<r.design_life_adjusted>>,
            strength_ratio |-> <<r.strength_ratio>>,
            design_ratio |-> <<r.design_ratio>>,
            cov |-> <<r.cov>>]]

\* the mean_* / stddev_* values of a structure that is the only row of df0
OneRowDist(row) == MeanStddevColumns(<<row>>, OneRowColumns(row))

\* the mean_* / stddev_* values held for structure i, as a table of one row
OwnDist(i) == [k \in DOMAIN dist |-> <<dist[k][i]>>]

\* the values held for structure i are those the structure gets as the only
\* row of the table: in the running lists, in the stored columns (looked at
\* while the passes run; they do not change afterwards), in the loop's
\* factors and in the distributions (looked at when they are computed; they do
\* not change afterwards); and its value in the newest wind-speed column is
\* the one computed from its own distributions alone
OwnFieldsOnly ==
    /\ \A i \in 1..Len(lists.cov) :
         pc = "calc" =>
           LET r == MaterialBranch(Entry, df0[i])
           IN /\ lists.design_life_adjustment[i] = r.design_life_adjustment
              /\ lists.design_life_adjusted[i] = r.design_life_adjusted
              /\ lists.strength_ratio[i] = r.strength_ratio
              /\ lists.design_ratio[i] = r.design_ratio
              /\ lists.cov[i] = r.cov
    /\ pc \in {"calc", "mean"} =>
         \A e \in DOMAIN cols : \A i \in 1..Len(cols[e].cov) :
            LET r == MaterialBranch(e, df0[i])
            IN /\ cols[e].design_life_adjustment[i] = r.design_life_adjustment
               /\ cols[e].design_life_adjusted[i] = r.design_life_adjusted
               /\ cols[e].strength_ratio[i] = r.strength_ratio
               /\ cols[e].design_ratio[i] = r.design_ratio
               /\ cols[e].cov[i] = r.cov
    /\ FactorsAssigned => factors = FactorsOf(factors.row, df0[factors.row])
    /\ (pc = "sweep" /\ wspeed = 0) =>
         \A i \in 1..Len(df0) :
            LET own == OneRowDist(df0[i])
            IN \A k \in Components :
                  dist[k[1]][i] = own[k[1]][1] /\ dist[k[2]][i] = own[k[2]][1]
    /\ Len(pf) > 0 =>
         \A i \in 1..Len(df0) :
            pf[Len(pf)][i] = ProbFailRow(Len(pf) - 1, OwnDist(i), 1)

\* a step changes no value already held for a structure: the lists and the
\* wind-speed columns only grow, the stored columns and distributions stay
\* (a new pass starts its lists empty)
NoCarryOver ==
    /\ dist # dist' => DOMAIN dist = {}
    /\ SubSeq(pf', 1, Len(pf)) = pf
    /\ \A e \in DOMAIN cols : e \in DOMAIN cols' /\ cols'[e] = cols[e]
    /\ lists' # lists =>
         \/ lists' = EmptyLists
         \/ SubSeq(lists'.cov, 1, Len(lists.cov)) = lists.cov /\ Len(lists.cov) = p

\* C22: every derived value of a structure (reduction factors, adjustment,
\* adjusted life, cov, strength ratio, design ratio, mean/stddev, p_fail per
\* speed) is a function of its own fields, the constant tables and the year:
\* it is the value the structure gets as the only row, whatever the other rows
\* and the position of the structure, and nothing computed for a previous
\* structure or theme carries over.
C22_PerStructureIndependence == []OwnFieldsOnly /\ [][NoCarryOver]_vars

\* a finished run over two different structures whose values differ
C22_Witness ==
    /\ pc = "done"
    /\ Len(df0) > 1
    /\ df0[1] # df0[2]
    /\ Len(pf) = MaxWspeed + 1
    /\ cols["ANCHOR_CD"].design_life_adjustment[1] # cols["ANCHOR_CD"].design_life_adjustment[2]
    /\ dist.mean_FOUNDATION[1] # dist.mean_FOUNDATION[2]


(***************************************************************************)
(* The input columns                                                       *)
(***************************************************************************)
\* the columns of the SELECT of lines 249-256
InputColumns ==
    {"SAP_EQUIP_ID", "ETGIS_ID", "STRUCTURE_NO", "WEAR_FATIGUE_RED_FAC",
     "SAP_FUNC_LOC_NO", "AGRICULTURE", "WETLAND_TYPE", "CORROSION_ZONE",
     "INSTALLED_YEAR", "MATERIAL_FLAG", "ANCHOR_CD", "GUY_CD", "STRUCTURE_CD",
     "FOUNDATION_CD", "CROSSARMS_CD", "FRAME_ATTACH_CD", "STRUCT_ATTACH_CD",
     "STUB_SPLICE_CD", "CONDUCTOR_CD", "OGW_CD", "HARDWARE_INSUL_CD",
     "WSIP_SCOPE_IND", "HOST_TLINE_NM", "SPLICES", "TLINE_MILES",
     "OUTAGE_DESIGNLIFE_MOD"}

\* the names of the columns the script has assigned so far: lines 744-748,
\* 760-781 (with 'mu', line 772), 788-789 and 795
AssignedColumns ==
    {e \o s : e \in DOMAIN cols,
              s \in {"_des_life_adjustment", "_des_life_adjusted", "_strength_ratio",
                     "_design_ratio", "_cov"}}
    \cup (IF DOMAIN dist # {} THEN DOMAIN dist \cup {"mu"} ELSE {})
    \cup {"_" \o ToString(v - 1) \o "_mph" : v \in 1..Len(pf)}
    \cup (IF DATETIME = "now" THEN {"DATETIME"} ELSE {})

\* no assigned column has the name of an input column, and the fields the
\* rows are read with are input columns
NewColumnsOnly ==
    /\ AssignedColumns \cap InputColumns = {}
    /\ \A i \in 1..Len(df0) : DOMAIN df0[i] \subseteq InputColumns

\* once read, the input fields of every structure keep their values
InputsKept == pc # "read" => df0' = df0

\* C23: throughout a run the input fields of every structure (material flag,
\* installed year, condition codes, categories, splice count, wear/fatigue
\* factor, outage modifier) keep the values that were read: every step only
\* adds new columns and none overwrites an input column.
C23_InputsNotOverwritten == []NewColumnsOnly /\ [][InputsKept]_vars

\* a finished run: 40 per-theme columns, 16 mean/stddev columns and mu, 121
\* wind-speed columns and DATETIME were added to a table of several rows
C23_Witness ==
    /\ pc = "done"
    /\ Len(df0) > 1
    /\ Cardinality(AssignedColumns) = 5 * 8 + 17 + (MaxWspeed + 1) + 1
    /\ writeDB


(***************************************************************************)
(* Failures of the output sinks                                            *)
(***************************************************************************)
\* the CSV branch was entered and left without the file written
CsvWriteFailed == writeCSV /\ drop_list = "bound" /\ ~csv_file.written /\ pc # "csv"

\* the database branch was entered and left without the table written
DbWriteFailed ==
    /\ writeDB /\ ~db_table.written
    /\ \E k \in 1..Len(printed) : printed[k] = "Writing to database"

Reported(message) == \E k \in 1..Len(printed) : printed[k] = message

\* C24: a failure of one output sink does not stop the batch: if the CSV
\* write fails the run goes on to the database branch, if the database write
\* fails the run ends normally with the failure reported, and in both cases
\* the computed table remains available.
C24_SinkFailureIsolated ==
    /\ CsvWriteFailed => pc \in {"db", "done"}
    /\ DbWriteFailed => pc = "done" /\ Reported("Error writing to database")
    /\ (CsvWriteFailed \/ DbWriteFailed) => AllColumnsComputed


(***************************************************************************)
(* Errors raised inside the loops                                          *)
(***************************************************************************)
\* the run has ended on an exception raised in the theme / structure loops
RaisedInLoop == pc = "failed" /\ DATETIME = "unset"

\* structure / theme pairs not yet processed
PairsLeft == p < Len(df0) \/ entry_i < Len(steel_pronto_themes)

\* C25: an error raised while computing one structure / theme pair (failed
\* lookup, non-numeric score, division by zero) does not abort the batch: the
\* remaining structures and themes are still processed, so a run never ends
\* on such an error with pairs left unprocessed.
C25_PairErrorIsolated == RaisedInLoop => ~PairsLeft


(***************************************************************************)
(* Termination                                                             *)
(***************************************************************************)
\* the loop counters stay within their ranges: eight themes, one iteration
\* per structure in a pass, the speeds 0 .. 120
LoopBounds ==
    /\ entry_i \in 1..Len(steel_pronto_themes)
    /\ p \in 0..Len(df0)
    /\ wspeed \in 0..(MaxWspeed + 1)
    /\ Len(pf) <= MaxWspeed + 1
    /\ Len(df0) <= NumStructures

\* the script has reached its last line, or has ended on an exception
Ended == pc \in {"done", "failed"}

\* a script that has not ended has a next statement to run: the control flow
\* has a step, and outside the two loops (whose actions are enabled by their
\* guards on p and wspeed, see LoopBounds) so has the script itself
NeverWaits ==
    ~Ended =>
        /\ ENABLED <<Control>>_ctl
        /\ pc = "sweep" => wspeed <= MaxWspeed
        /\ pc \notin {"calc", "sweep"} => ENABLED <<NextRun>>_vars

\* C26: for every finite table the run terminates: the theme loop, the
\* structure loop and the wind-speed loop each run a bounded number of
\* iterations, after which the run has reached the end of the script or has
\* failed outright; it never loops forever or waits.  Every step of the
\* script is a step of its control flow, so the fairness of SpecRunFair is
\* that of the interpreter running the script.
C26_Terminates ==
    /\ []LoopBounds
    /\ []NeverWaits
    /\ [][Control]_vars
    /\ <>Ended

\* a run over several structures that went through every loop to the last line
C26_Witness ==
    /\ pc = "done"
    /\ Len(df0) > 1
    /\ entry_i = Len(steel_pronto_themes)
    /\ p = Len(df0)
    /\ wspeed = MaxWspeed + 1


(***************************************************************************)
(* The running lists of a pass                                             *)
(***************************************************************************)
ListNames ==
    {"design_life_adjustment", "design_life_adjusted", "strength_ratio",
     "design_ratio", "cov"}

\* in a pass each running list holds one entry per structure processed, and
\* each stored column one entry per structure of the table, the i-th being
\* the value of the i-th structure (looked at while the passes run: the
\* stored columns do not change afterwards)
ListLengths ==
    /\ pc = "calc" => \A n \in ListNames : Len(lists[n]) = p
    /\ \A e \in DOMAIN cols : \A n \in ListNames :
         /\ Len(cols[e][n]) = Len(df0)
         /\ pc \in {"calc", "mean"} =>
              \A i \in 1..Len(df0) : cols[e][n][i] = MaterialBranch(e, df0[i])[n]

\* processing a structure adds exactly one entry, that structure's, to each
\* list; storing a pass stores the lists as they are
OneEntryEach ==
    /\ p' = p + 1 =>
         \A n \in ListNames :
            lists'[n] = Append(lists[n], MaterialBranch(Entry, df0[p + 1])[n])
    /\ cols' # cols =>
         /\ pc = "calc" /\ p = Len(df0)
         /\ cols'[Entry] = lists
         /\ \A e \in DOMAIN cols \ {Entry} : cols'[e] = cols[e]

\* C27: within one theme's pass, after each structure is processed the five
\* running lists (design-life adjustment, adjusted design life, strength
\* ratio, design ratio, cov) each hold exactly one more entry than before,
\* whatever the material flag and branch taken; at the end of the pass each
\* list has as many entries as there are structures and its i-th entry
\* belongs to the i-th structure when it is stored as the theme's column.
C27_RunningLists == []ListLengths /\ [][OneEntryEach]_vars

\* the end of a later pass over structures of different material flags
C27_Witness ==
    /\ pc = "calc"
    /\ entry_i > 1
    /\ p = Len(df0)
    /\ Len(df0) > 1
    /\ df0[1].MATERIAL_FLAG # df0[2].MATERIAL_FLAG
    /\ \A n \in ListNames : Len(lists[n]) = Len(df0)


(***************************************************************************)
(* The two branches at the sign boundary                                   *)
(***************************************************************************)
\* for the factors of a structure, each adjustment function at an outage
\* factor of exactly 0 returns its root-sum-square formula, and its
\* negative-branch formula evaluated at 0 gives the same value
SameAtZero(row) ==
    LET age == AGE_YEARS(row)
        wear == wear_fatigue_red_factor(row)
        splice == splice_density_red_factor(row)
        soil == soil_corrosivity_red_factor(row)
        atm == atmospheric_corrosivity_red_factor(row)
    IN /\ DLife_WoodSteel_Conductor(age, "CONDUCTOR_CD", 0, wear, splice, atm).design_life_adjustment
            = Conductor_RootSumSquare(0, wear, splice, atm)
       /\ Conductor_Negative(0, wear, splice, atm) = Conductor_RootSumSquare(0, wear, splice, atm)
       /\ DLife_WoodSteel_Anchor(age, "ANCHOR_CD", 0, soil).design_life_adjustment
            = Anchor_RootSumSquare(0, soil)
       /\ Anchor_Negative(0, soil) = Anchor_RootSumSquare(0, soil)
       /\ DLife_WoodSteel_Guy(age, "GUY_CD", 0, atm).design_life_adjustment
            = Guy_RootSumSquare(0, atm)
       /\ Guy_Negative(0, atm) = Guy_RootSumSquare(0, atm)
       /\ DLife_WoodSteel_OGW(age, "OGW_CD", 0, atm, soil).design_life_adjustment
            = OGW_RootSumSquare(0, atm, soil)
       /\ OGW_Negative(0, atm, soil) = OGW_RootSumSquare(0, atm, soil)
       /\ DLife_WoodSteel_HI(age, "HARDWARE_INSUL_CD", 0, atm, soil).design_life_adjustment
            = HI_RootSumSquare(0, atm, soil)
       /\ HI_Negative(0, atm, soil) = HI_RootSumSquare(0, atm, soil)
       /\ DLife_WoodSteel_StructureFoundation(age, "FOUNDATION_CD", 0, atm, wear, soil).design_life_adjustment
            = StructureFoundation_RootSumSquare(0, atm, wear, soil)
       /\ StructureFoundation_Negative(0, atm, wear, soil)
            = StructureFoundation_RootSumSquare(0, atm, wear, soil)
       /\ DLife_WoodSteel_AllOthers(age, "STUB_SPLICE_CD", 0, atm, wear).design_life_adjustment
            = AllOthers_RootSumSquare(0, atm, wear)
       /\ AllOthers_Negative(0, atm, wear) = AllOthers_RootSumSquare(0, atm, wear)

\* the values the root-sum-square formulas give a structure at outage factor 0
RootSumSquareAtZero(row) ==
    LET wear == wear_fatigue_red_factor(row)
        splice == splice_density_red_factor(row)
        soil == soil_corrosivity_red_factor(row)
        atm == atmospheric_corrosivity_red_factor(row)
    IN {Conductor_RootSumSquare(0, wear, splice, atm), Anchor_RootSumSquare(0, soil),
        Guy_RootSumSquare(0, atm), OGW_RootSumSquare(0, atm, soil),
        HI_RootSumSquare(0, atm, soil),
        StructureFoundation_RootSumSquare(0, atm, wear, soil),
        AllOthers_RootSumSquare(0, atm, wear)}

\* C28: an outage-density factor of exactly 0 takes the root-sum-square
\* branch, and at 0 the two branches agree for every family: the
\* negative-branch formula evaluated at outage factor 0 gives the same
\* adjustment as the other branch, so the adjustment has no jump at the sign
\* boundary.
C28_NoJumpAtZero ==
    pc = "calc" =>
        \A i \in 1..p :
            /\ SameAtZero(df0[i])
            /\ outage_density_red_factor(df0[i]) = 0 =>
                 lists.design_life_adjustment[i] \in RootSumSquareAtZero(df0[i])

\* a processed structure with outage factor 0 and wear, soil and atmospheric
\* factors above 0, whose adjustment is below 1
C28_Witness ==
    /\ pc = "calc"
    /\ p = 1
    /\ outage_density_red_factor(df0[1]) = 0
    /\ wear_fatigue_red_factor(df0[1]) > 0
    /\ soil_corrosivity_red_factor(df0[1]) > 0
    /\ atmospheric_corrosivity_red_factor(df0[1]) > 0
    /\ lists.design_life_adjustment[1] < Scale
    /\ lists.design_life_adjustment[1] > 0


(***************************************************************************)
(* The strength ratio over the codes                                       *)
(***************************************************************************)
\* the condition code the strength ratio of theme e is computed from
CodeOf(e, row) == row[AliasedName(e, row.MATERIAL_FLAG)]

\* the strength ratio the same structure gets with code c for theme e
RatioWithCode(e, row, c) ==
    MaterialBranch(e, [row EXCEPT ![AliasedName(e, row.MATERIAL_FLAG)] = c]).strength_ratio

\* a float below 0
Negative(x) == x.t = "ninf" \/ (x.t = "num" /\ x.v < 0)

\* the stored strength ratios: within [0, 1] for the codes 0 .. 7, not
\* increasing from one code to the next over 1 .. 7, below 0 above 7
RatioRange ==
    \A s \in Stored :
        LET row == df0[s[2]]
            c == CodeOf(s[1], row)
            r == cols[s[1]].strength_ratio[s[2]]
        IN /\ c \in 0..7 => 0 <= r /\ r <= Scale
           /\ c \in 1..6 => RatioWithCode(s[1], row, c + 1) <= r
           /\ c > 7 => r < 0

\* the mean and the stddev of a component whose code is above 7 are below 0
NegativeCapacity ==
    DOMAIN dist # {} =>
        \A k \in Components : \A i \in 1..Len(df0) :
            CodeOf(k[3], df0[i]) > 7 =>
                dist[k[1]][i] < 0 /\ Negative(dist[k[2]][i])

\* C29: for every integer condition code from 0 to 7 the strength ratio lies
\* in [0, 1] and never increases as the code goes from 1 to 7; a code above 7
\* is not rejected and yields a negative strength ratio, hence a negative
\* component mean and stddev.
C29_StrengthRatioRange == RatioRange /\ NegativeCapacity


(***************************************************************************)
(* The database branch without the CSV branch                              *)
(***************************************************************************)
\* C30: the database write is independent of the CSV write: with the
\* database flag on and the CSV flag off the run still writes the augmented
\* table, without the dropped input columns, to the database; the list of
\* columns to drop is available to the database branch whether or not the
\* CSV branch ran.
C30_DatabaseWriteIndependent ==
    /\ (pc = "db" /\ writeDB) => drop_list = "bound"
    /\ (pc = "done" /\ writeDB /\ ~writeCSV) =>
          /\ db_table.written
          /\ db_table.dropped = drop_list_columns
          /\ db_table.cols = cols /\ db_table.dist = dist /\ db_table.pf = pf

====
